---- MODULE Spec2Model ----
(***************************************************************************)
(* Model of the RepGen transcript-to-report pipeline and CoT encoder.      *)
(*                                                                         *)
(* Python strings are TLA+ strings, taken apart with Len, SubSeq and \o.   *)
(* A field map (a Python dict of str -> str) is a function whose DOMAIN is *)
(* the set of keys that are present.  Each pure function of the source is  *)
(* an operator; each has a specification whose Init draws the inputs from  *)
(* bounded sets and whose action applies the function once.                *)
(***************************************************************************)
EXTENDS Integers, Sequences, FiniteSets, TLC

VARIABLES
    pc,                 \* position of the call under study
    ai_fields,          \* merge: the ML extractor's field map
    fallback_fields,    \* merge: the rule layer's field map
    merged,             \* merge: the returned map
    report_type,        \* report type the call is made for
    extracted_fields,   \* validate: the caller's map
    validated,          \* validate: the returned map
    transcript,         \* classify: the transcript
    report_templates,   \* classify: the template table's keys, in insertion order
    classification,     \* classify: the returned (report_type, confidence)
    report_data,        \* encode: the field map handed to create_cot_event
    reporting_unit,     \* encode: the explicit override parameter (None or a string)
    clock,              \* encode: the wall clock, in seconds
    event,              \* encode: the event that was built
    location_text,      \* resolve: the location string
    coords,             \* resolve: the returned GeoPoint
    files,              \* generate: the import directory, file name -> content
    generated,          \* generate: what generate_cot_xml returned
    sender,             \* send: the transport sender that was called
    tak_scheme,         \* send: the scheme of tak_url (None for the file senders)
    xml_file_path,      \* send: the path handed to send_cot_tcp / send_cot_udp
    xml_data,           \* send: the payload (cot_xml / xml_data)
    sock,               \* send: the state of the sender's socket or connection
    tx_queue,           \* send: the transmit queue of the CLITool
    wire,               \* send: the payloads handed to the OS socket layer
    send_result,        \* send: what the sender returned
    rule_fields,        \* extract: the field map extract_fields_with_fallback builds
    processed_fields,   \* post-process: the returned map
    normalized,         \* normalize: the transcript after one pass of the normalizer
    renormalized,       \* normalize: the transcript after a second pass
    grid_input,         \* grid: the text given to an MGRS-handling function
    grid_path,          \* grid: the function that was called
    grid_handed,        \* grid: the grid string it converts or splits (None: none)
    grid_result,        \* grid: what it returns
    reports,            \* pair: the two reports' field maps and uuids
    returned,           \* pair: what generate_cot_xml returned for each report
    delivered,          \* pair: the payload each report's send handed to the socket
    stage,              \* pair: the position of each report's flow
    other_transcript,   \* compare: a second transcript, holding the first one's phrases
    other_classification,  \* compare: the (report_type, confidence) returned for it
    revalidated,        \* validate: the map returned by a second pass
    sent,               \* serializer: the instance's sent flag
    run_pc,             \* serializer: the position of each run() call
    pending             \* serializer: the event each suspended run() call is about to put

vars == <<pc, ai_fields, fallback_fields, merged, report_type, extracted_fields,
          validated, transcript, report_templates, classification, report_data,
          reporting_unit, clock, event, location_text, coords, files, generated,
          sender, tak_scheme, xml_file_path, xml_data, sock, tx_queue, wire, send_result,
          rule_fields, processed_fields, normalized, renormalized,
          grid_input, grid_path, grid_handed, grid_result,
          reports, returned, delivered, stage,
          other_transcript, other_classification,
          revalidated,
          sent, run_pc, pending>>

mergeVars    == <<ai_fields, fallback_fields, merged>>
validateVars == <<extracted_fields, validated>>
classifyVars == <<transcript, report_templates, classification>>
encodeVars   == <<report_data, reporting_unit, clock, event>>
resolveVars  == <<location_text, coords>>
generateVars == <<files, generated>>
sendVars     == <<sender, tak_scheme, xml_file_path, xml_data, sock, tx_queue, wire,
                  send_result>>
extractVars  == <<rule_fields>>
processVars  == <<processed_fields>>
normalizeVars == <<normalized, renormalized>>
gridVars == <<grid_input, grid_path, grid_handed, grid_result>>
pairVars == <<reports, returned, delivered, stage>>
compareVars == <<other_transcript, other_classification>>
revalidateVars == <<revalidated>>
serializerVars == <<sent, run_pc, pending>>
extensionVars == <<generateVars, sendVars, extractVars, processVars, normalizeVars, gridVars,
                  pairVars,
                  compareVars,
                  revalidateVars,
                  serializerVars>>

None == "<None>"          \* Python's None
EmptyMap == <<>>          \* Python's {}

(***************************************************************************)
(* Bounds                                                                  *)
(***************************************************************************)
NumMergeFields == 2
NumMergeValues == 6

Min(a, b) == IF a < b THEN a ELSE b
Max(a, b) == IF a > b THEN a ELSE b
Prefix(seq, n) == {seq[i] : i \in 1..Min(n, Len(seq))}
FieldMaps(F, V) == UNION {[S -> V] : S \in SUBSET F}

(***************************************************************************)
(* String primitives                                                       *)
(***************************************************************************)
\* Python's `t in s` on strings
Contains(s, t) ==
    \E i \in 1..(Len(s) - Len(t) + 1) : SubSeq(s, i, i + Len(t) - 1) = t

UpperLetters == "ABCDEFGHIJKLMNOPQRSTUVWXYZ"
LowerLetters == "abcdefghijklmnopqrstuvwxyz"
Digits == "0123456789"

CharAt(s, i) == SubSeq(s, i, i)
Rest(s) == SubSeq(s, 2, Len(s))
\* 1-based position of the one-character string c in alphabet, 0 when absent
IndexOf(c, alphabet) ==
    IF \E i \in 1..Len(alphabet) : CharAt(alphabet, i) = c
    THEN CHOOSE i \in 1..Len(alphabet) : CharAt(alphabet, i) = c
    ELSE 0
CharsOf(alphabet) == {CharAt(alphabet, i) : i \in 1..Len(alphabet)}
DigitChars == CharsOf(Digits)
UpperChars == CharsOf(UpperLetters)
LowerChars == CharsOf(LowerLetters)
IsDigit(c) == c \in DigitChars
IsUpper(c) == c \in UpperChars
IsLower(c) == c \in LowerChars
IsAlpha(c) == IsUpper(c) \/ IsLower(c)
IsSpace(c) == c = " "

UpperChar(c) == IF IsLower(c) THEN CharAt(UpperLetters, IndexOf(c, LowerLetters)) ELSE c
LowerChar(c) == IF IsUpper(c) THEN CharAt(LowerLetters, IndexOf(c, UpperLetters)) ELSE c

\* apply a per-character conversion by halving, so long strings stay shallow
RECURSIVE Upper(_)
\* str.upper()
Upper(s) ==
    IF Len(s) = 0 THEN ""
    ELSE IF Len(s) = 1 THEN UpperChar(s)
    ELSE Upper(SubSeq(s, 1, Len(s) \div 2)) \o Upper(SubSeq(s, (Len(s) \div 2) + 1, Len(s)))

RECURSIVE Lower(_)
\* str.lower()
Lower(s) ==
    IF Len(s) = 0 THEN ""
    ELSE IF Len(s) = 1 THEN LowerChar(s)
    ELSE Lower(SubSeq(s, 1, Len(s) \div 2)) \o Lower(SubSeq(s, (Len(s) \div 2) + 1, Len(s)))

RECURSIVE RemoveSpaces(_)
\* str.replace(" ", "")
RemoveSpaces(s) ==
    IF Len(s) = 0 THEN ""
    ELSE IF Len(s) = 1 THEN (IF s = " " THEN "" ELSE s)
    ELSE RemoveSpaces(SubSeq(s, 1, Len(s) \div 2))
            \o RemoveSpaces(SubSeq(s, (Len(s) \div 2) + 1, Len(s)))

\* str.strip()
Strip(s) ==
    LET solid == {i \in 1..Len(s) : ~IsSpace(CharAt(s, i))}
        lo == CHOOSE i \in solid : \A j \in solid : i <= j
        hi == CHOOSE i \in solid : \A j \in solid : i >= j
    IN  IF solid = {} THEN "" ELSE SubSeq(s, lo, hi)

AllDigits(s) == s # "" /\ \A i \in 1..Len(s) : IsDigit(CharAt(s, i))
AnyDigit(s) == \E i \in 1..Len(s) : IsDigit(CharAt(s, i))

RECURSIVE DigitsValue(_)
DigitsValue(s) ==
    IF s = "" THEN 0
    ELSE 10 * DigitsValue(SubSeq(s, 1, Len(s) - 1)) + (IndexOf(CharAt(s, Len(s)), Digits) - 1)

\* int(x) for a str x: surrounding whitespace, an optional sign, decimal digits;
\* anything else raises ValueError (ok = FALSE)
ParseInt(x) ==
    LET t == Strip(x)
        signed == t # "" /\ CharAt(t, 1) \in {"-", "+"}
        body == IF signed THEN Rest(t) ELSE t
    IN  IF AllDigits(body)
        THEN [ok |-> TRUE,
              val |-> IF signed /\ CharAt(t, 1) = "-" THEN 0 - DigitsValue(body)
                      ELSE DigitsValue(body)]
        ELSE [ok |-> FALSE, val |-> 0]

RECURSIVE NatToStr(_)
NatToStr(n) ==
    IF n < 10 THEN CharAt(Digits, n + 1)
    ELSE NatToStr(n \div 10) \o CharAt(Digits, (n % 10) + 1)
\* str(n) for an int n
IntToStr(n) == IF n < 0 THEN "-" \o NatToStr(0 - n) ELSE NatToStr(n)

\* dict helpers
\* bind x to the value v in F: v is computed once, however often F uses x
With(v, F(_)) == F(v)

Has(m, k) == k \in DOMAIN m
Get(m, k, default) == IF k \in DOMAIN m THEN m[k] ELSE default
Put(m, k, v) == [x \in (DOMAIN m) \cup {k} |-> IF x = k THEN v ELSE m[x]]

(***************************************************************************)
(* Regular-expression primitives                                           *)
(*                                                                         *)
(* Positions are 1-based; an "end" is the position just after a match and  *)
(* 0 stands for "no match".  \s is the space character: the texts of the   *)
(* model hold no other whitespace.                                         *)
(***************************************************************************)
MinOf(S) == CHOOSE x \in S : \A y \in S : x <= y
MaxOf(S) == CHOOSE x \in S : \A y \in S : x >= y
IsWordChar(c) == IsAlpha(c) \/ IsDigit(c) \/ c = "_"
IsSep(c) == c = "," \/ IsSpace(c)
NotSep(c) == ~IsSep(c)
IsDigitOrSpace(c) == IsDigit(c) \/ IsSpace(c)
Is(s, i, P(_)) == i >= 1 /\ i <= Len(s) /\ P(CharAt(s, i))
At(s, i, c) == i >= 1 /\ i <= Len(s) /\ CharAt(s, i) = c
\* \b at position i: exactly one of the characters around it is a word character
WordBoundary(s, i) == Is(s, i - 1, IsWordChar) # Is(s, i, IsWordChar)
\* the end of the longest run of P-characters that starts at i
RunEnd(s, i, P(_)) == MinOf({j \in i..(Len(s) + 1) : ~Is(s, j, P)})
SkipSpaces(s, i) == RunEnd(s, i, IsSpace)
DigitsEnd(s, i) == RunEnd(s, i, IsDigit)
LettersEnd(s, i) == RunEnd(s, i, IsAlpha)
\* \s*,\s* at i
SepEnd(s, i) ==
    With(SkipSpaces(s, i), LAMBDA a :
        IF At(s, a, ",") THEN SkipSpaces(s, a + 1) ELSE 0)
\* the literal w at i, ignoring case
WordAt(s, i, w) ==
    /\ i + Len(w) - 1 <= Len(s)
    /\ LowerChar(CharAt(s, i)) = CharAt(w, 1)
    /\ Lower(SubSeq(s, i, i + Len(w) - 1)) = w
LastIndexOf(s, c) ==
    With({i \in 1..Len(s) : CharAt(s, i) = c}, LAMBDA found :
        IF found = {} THEN 0 ELSE MaxOf(found))
RECURSIVE RemoveSeps(_)
\* ''.join(p.strip() for p in s.split(',')) for parts without inner spaces
RemoveSeps(s) ==
    IF Len(s) = 0 THEN ""
    ELSE IF Len(s) = 1 THEN (IF IsSep(s) THEN "" ELSE s)
    ELSE RemoveSeps(SubSeq(s, 1, Len(s) \div 2))
            \o RemoveSeps(SubSeq(s, (Len(s) \div 2) + 1, Len(s)))

(***************************************************************************)
(* Phonetic tables, convert_phonetic_to_standard, process_grid_sequence    *)
(***************************************************************************)
PHONETIC_NUMBERS ==
    << <<"zero", "0">>, <<"one", "1">>, <<"two", "2">>, <<"tree", "3">>,
       <<"three", "3">>, <<"fower", "4">>, <<"four", "4">>, <<"fife", "5">>,
       <<"five", "5">>, <<"six", "6">>, <<"seven", "7">>, <<"eight", "8">>,
       <<"niner", "9">>, <<"nine", "9">> >>
PHONETIC_ALPHABET ==
    << <<"alpha", "A">>, <<"bravo", "B">>, <<"charlie", "C">>, <<"delta", "D">>,
       <<"echo", "E">>, <<"foxtrot", "F">>, <<"golf", "G">>, <<"hotel", "H">>,
       <<"india", "I">>, <<"juliet", "J">>, <<"kilo", "K">>, <<"lima", "L">>,
       <<"mike", "M">>, <<"november", "N">>, <<"oscar", "O">>, <<"papa", "P">>,
       <<"quebec", "Q">>, <<"romeo", "R">>, <<"sierra", "S">>, <<"tango", "T">>,
       <<"uniform", "U">>, <<"victor", "V">>, <<"whiskey", "W">>, <<"x-ray", "X">>,
       <<"xray", "X">>, <<"yankee", "Y">>, <<"zulu", "Z">> >>

\* \bw\b at i, and for letter words the lookahead (?=\s*[,\-\s]|$)
PhoneticAt(s, i, w, lookahead) ==
    /\ WordAt(s, i, w)
    /\ WordBoundary(s, i)
    /\ WordBoundary(s, i + Len(w))
    /\ lookahead => (i + Len(w) > Len(s) \/ CharAt(s, i + Len(w)) \in {" ", ",", "-"})

RECURSIVE ReplaceAt(_, _, _, _)
\* replace the n characters at each position of P by r, rightmost first
ReplaceAt(s, P, n, r) ==
    IF P = {} THEN s
    ELSE ReplaceAt(SubSeq(s, 1, MaxOf(P) - 1) \o r \o SubSeq(s, MaxOf(P) + n, Len(s)),
                   P \ {MaxOf(P)}, n, r)

\* re.sub(r'\b' + w + r'\b' [+ lookahead], r, s, flags=re.IGNORECASE)
SubPhonetic(s, w, r, lookahead) ==
    ReplaceAt(s, {i \in 1..Len(s) : PhoneticAt(s, i, w, lookahead)}, Len(w), r)

RECURSIVE ApplyTable(_, _, _, _)
\* the for loop over a phonetic table, from entry k on
ApplyTable(s, table, k, lookahead) ==
    IF k > Len(table) \/ s = "" THEN s
    ELSE ApplyTable(SubPhonetic(s, table[k][1], table[k][2], lookahead),
                    table, k + 1, lookahead)

convert_phonetic_to_standard(text) ==
    ApplyTable(ApplyTable(text, PHONETIC_NUMBERS, 1, FALSE), PHONETIC_ALPHABET, 1, TRUE)

RECURSIVE SplitTokens(_, _)
\* the non-empty parts of re.split(r'[,\s]+', s), from position i on
SplitTokens(s, i) ==
    With(RunEnd(s, i, IsSep), LAMBDA a :
        IF a > Len(s) THEN <<>>
        ELSE With(RunEnd(s, a, NotSep), LAMBDA b :
                <<SubSeq(s, a, b - 1)>> \o SplitTokens(s, b)))

\* what one part contributes: its letter, its digit, itself when all digits
GridPart(part) ==
    With(Lower(part), LAMBDA low :
    With({k \in 1..Len(PHONETIC_ALPHABET) : PHONETIC_ALPHABET[k][1] = low}, LAMBDA letters :
    With({k \in 1..Len(PHONETIC_NUMBERS) : PHONETIC_NUMBERS[k][1] = low}, LAMBDA numbers :
        IF letters # {} THEN PHONETIC_ALPHABET[MinOf(letters)][2]
        ELSE IF numbers # {} THEN PHONETIC_NUMBERS[MinOf(numbers)][2]
        ELSE IF AllDigits(part) THEN part
        ELSE "")))

RECURSIVE ConcatParts(_)
ConcatParts(parts) ==
    IF parts = <<>> THEN "" ELSE GridPart(Head(parts)) \o ConcatParts(Tail(parts))

process_grid_sequence(text) == ConcatParts(SplitTokens(text, 1))

(***************************************************************************)
(* preprocess_military_transcript                                          *)
(***************************************************************************)
\* one more `\s*,\s*\d` from p
FreqGroupEnd(s, p) ==
    With(SepEnd(s, p), LAMBDA q :
        IF q > 0 /\ Is(s, q, IsDigit) THEN q + 1 ELSE 0)
RECURSIVE FreqGroupEnds(_, _)
\* the ends of the successive `\s*,\s*\d` groups from p
FreqGroupEnds(s, p) ==
    With(FreqGroupEnd(s, p), LAMBDA e :
        IF e = 0 THEN <<>> ELSE <<e>> \o FreqGroupEnds(s, e))
\* the optional `\s*,\s*\d+\.\d+` from p
FreqTailEnd(s, p) ==
    With(SepEnd(s, p), LAMBDA q :
    With(DigitsEnd(s, q), LAMBDA a :
    With(DigitsEnd(s, a + 1), LAMBDA b :
        IF q > 0 /\ a > q /\ At(s, a, ".") /\ b > a + 1 THEN b ELSE 0)))
\* where a match that has taken the `\s*,\s*\d` groups up to e ends: after the
\* tail when the closing \b holds there, else at e when it holds there (0: nowhere)
FreqCandidate(s, e) ==
    With(FreqTailEnd(s, e), LAMBDA t :
        IF t > 0 /\ WordBoundary(s, t) THEN t
        ELSE IF WordBoundary(s, e) THEN e
        ELSE 0)
\* freq_pattern at i: the regex prefers more groups, then the tail, and
\* backtracks until the closing \b holds
FreqMatchEnd(s, i) ==
    IF ~(Is(s, i, IsDigit) /\ WordBoundary(s, i)) THEN 0
    ELSE With(FreqGroupEnds(s, i + 1), LAMBDA ends :
         With({r \in 1..Len(ends) : FreqCandidate(s, ends[r]) > 0}, LAMBDA ok :
             IF ok = {} THEN 0 ELSE FreqCandidate(s, ends[MaxOf(ok)])))

\* lines 509-517
merge_frequency(m) ==
    With(LastIndexOf(m, ","), LAMBDA comma :
        IF Contains(SubSeq(m, comma + 1, Len(m)), ".")
        THEN RemoveSeps(SubSeq(m, 1, comma - 1)) \o "."
                \o SubSeq(m, LastIndexOf(m, ".") + 1, Len(m))
        ELSE RemoveSeps(m))

RECURSIVE SubFreq(_, _)
\* re.sub(freq_pattern, merge_frequency, s), from position from on
SubFreq(s, from) ==
    With({i \in from..Len(s) : FreqMatchEnd(s, i) > 0}, LAMBDA starts :
        IF starts = {} THEN SubSeq(s, from, Len(s))
        ELSE With(MinOf(starts), LAMBDA i :
             With(FreqMatchEnd(s, i), LAMBDA e :
                 SubSeq(s, from, i - 1) \o merge_frequency(SubSeq(s, i, e - 1))
                     \o SubFreq(s, e))))

RECURSIVE DigitCommaGroupsEnd(_, _)
\* (?:\d+\s*,\s*)+ at i
DigitCommaGroupsEnd(s, i) ==
    With(DigitsEnd(s, i), LAMBDA a :
    With(SepEnd(s, a), LAMBDA q :
        IF a > i /\ q > 0
        THEN With(DigitCommaGroupsEnd(s, q), LAMBDA more : IF more > 0 THEN more ELSE q)
        ELSE 0))
RECURSIVE WordCommaGroupsEnd(_, _)
\* (?:[A-Z][a-z]+\s*,\s*)+ at i, ignoring case
WordCommaGroupsEnd(s, i) ==
    With(LettersEnd(s, i), LAMBDA a :
    With(SepEnd(s, a), LAMBDA q :
        IF a > i + 1 /\ q > 0
        THEN With(WordCommaGroupsEnd(s, q), LAMBDA more : IF more > 0 THEN more ELSE q)
        ELSE 0))
RECURSIVE DigitTailEnd(_, _)
\* (?:\d+\s*,?\s*)+ at i
DigitTailEnd(s, i) ==
    With(DigitsEnd(s, i), LAMBDA a :
    With(SkipSpaces(s, a), LAMBDA c :
    With(IF At(s, c, ",") THEN SkipSpaces(s, c + 1) ELSE c, LAMBDA q :
        IF a > i
        THEN With(DigitTailEnd(s, q), LAMBDA more : IF more > 0 THEN more ELSE q)
        ELSE 0)))
\* group 1 of grid_pattern at i
GridCoreEnd(s, i) ==
    With(DigitCommaGroupsEnd(s, i), LAMBDA d :
        IF d = 0 THEN 0
        ELSE With(WordCommaGroupsEnd(s, d), LAMBDA w :
                IF w > 0 THEN DigitTailEnd(s, w) ELSE 0))
\* where group 1 starts for a match of grid_pattern that starts at i (0: none)
GridCoreStart(s, i) ==
    With(SkipSpaces(s, i + 4), LAMBDA j :
        IF WordAt(s, i, "grid") /\ j > i + 4 /\ GridCoreEnd(s, j) > 0 THEN j
        ELSE IF GridCoreEnd(s, i) > 0 THEN i
        ELSE 0)

RECURSIVE SubGrid(_, _)
\* re.sub(grid_pattern, replace_grid, s, flags=re.IGNORECASE), from position from on
SubGrid(s, from) ==
    With({i \in from..Len(s) : GridCoreStart(s, i) > 0}, LAMBDA starts :
        IF starts = {} THEN SubSeq(s, from, Len(s))
        ELSE With(MinOf(starts), LAMBDA i :
             With(GridCoreStart(s, i), LAMBDA j :
             With(GridCoreEnd(s, j), LAMBDA e :
                 SubSeq(s, from, i - 1)
                     \o "grid " \o process_grid_sequence(SubSeq(s, j, e - 1))
                     \o SubGrid(s, e)))))

preprocess_military_transcript(text) ==
    convert_phonetic_to_standard(SubGrid(SubFreq(text, 1), 1))

(***************************************************************************)
(* Coordinate resolver: mgrs_to_decimal_degrees and                        *)
(* extract_coordinates_from_location                                       *)
(*                                                                         *)
(* A GeoPoint keeps lat and lon as the decimal text str() prints for them, *)
(* hae, ce and le as whole metres.                                         *)
(***************************************************************************)
Sentinel == [lat |-> "0.0", lon |-> "0.0", hae |-> 0, ce |-> 9999999, le |-> 9999999]

\* [0-9]{1,2} at i takes two digits when there are two
ZoneDigits(s, i) == IF Is(s, i + 1, IsDigit) THEN 2 ELSE 1

\* mgrs_patterns[0] at i: [0-9]{1,2}[A-Z]{1,3}[A-Z]{2}[0-9]+, ignoring case
MgrsCompactEnd(s, i) ==
    With(i + ZoneDigits(s, i), LAMBDA a :
    With(LettersEnd(s, a), LAMBDA e :
    With(DigitsEnd(s, e), LAMBDA d :
        IF Is(s, i, IsDigit) /\ e - a >= 3 /\ e - a <= 5 /\ d > e THEN d ELSE 0)))

\* mgrs_patterns[1] at i: [0-9]{1,2}\s*[A-Z]{1,3}\s*[A-Z]{2}\s*[0-9\s]+, ignoring
\* case; [A-Z]{1,3} first tries the whole of a run of up to three letters
MgrsSpacedEnd(s, i) ==
    With(SkipSpaces(s, i + ZoneDigits(s, i)), LAMBDA a :
    With(LettersEnd(s, a), LAMBDA e1 :
    With(SkipSpaces(s, e1), LAMBDA b :
    With(LettersEnd(s, b), LAMBDA e2 :
    With(RunEnd(s, e2, IsDigitOrSpace), LAMBDA split :
    With(RunEnd(s, e1, IsDigitOrSpace), LAMBDA joined :
        IF ~Is(s, i, IsDigit) THEN 0
        ELSE IF e1 - a >= 1 /\ e1 - a <= 3 /\ e2 - b = 2 /\ split > e2 THEN split
        ELSE IF e1 - a >= 3 /\ e1 - a <= 5 /\ joined > e1 THEN joined
        ELSE 0))))))

\* group 1 of the first of mgrs_patterns that re.search finds in s, or None
MgrsSearch(s) ==
    With({i \in 1..Len(s) : MgrsCompactEnd(s, i) > 0}, LAMBDA compact :
        IF compact # {}
        THEN With(MinOf(compact), LAMBDA i : SubSeq(s, i, MgrsCompactEnd(s, i) - 1))
        ELSE With({i \in 1..Len(s) : MgrsSpacedEnd(s, i) > 0}, LAMBDA spaced :
                IF spaced # {}
                THEN With(MinOf(spaced), LAMBDA i : SubSeq(s, i, MgrsSpacedEnd(s, i) - 1))
                ELSE None))

\* re.search(r'[A-Za-z]{2,}', s)
HasWord(s) == \E i \in 1..(Len(s) - 1) : Is(s, i, IsAlpha) /\ Is(s, i + 1, IsAlpha)

\* lines 84-98: the grid string handed to the library (None: nothing to convert)
MgrsClean(mgrs_string) ==
    With(MgrsSearch(preprocess_military_transcript(mgrs_string)), LAMBDA found :
    With(IF found # None THEN found
         ELSE IF Contains(mgrs_string, ",") \/ HasWord(mgrs_string)
         THEN process_grid_sequence(mgrs_string)
         ELSE None, LAMBDA clean :
        IF clean = None \/ clean = "" THEN None ELSE RemoveSpaces(clean)))

\* mgrs.MGRS().toLatLon accepts a grid-zone number 1..60, a latitude band letter,
\* two 100 km square letters (never I or O) and an even count of at most ten
\* digits; anything else raises
MgrsLetters == "ABCDEFGHJKLMNPQRSTUVWXYZ"
BandLetters == "CDEFGHJKLMNPQRSTUVWX"
LibraryAccepts(g) ==
    With(Upper(g), LAMBDA u :
    With(DigitsEnd(u, 1), LAMBDA z :
    With(LettersEnd(u, z), LAMBDA e :
    With(DigitsEnd(u, e), LAMBDA d :
        /\ z - 1 \in 1..2
        /\ DigitsValue(SubSeq(u, 1, z - 1)) \in 1..60
        /\ e - z = 3
        /\ IndexOf(CharAt(u, z), BandLetters) > 0
        /\ IndexOf(CharAt(u, z + 1), MgrsLetters) > 0
        /\ IndexOf(CharAt(u, z + 2), MgrsLetters) > 0
        /\ d = Len(u) + 1
        /\ (d - e) % 2 = 0
        /\ d - e <= 10))))

\* lat and lon of a converted grid are kept symbolic; no grid converts to the
\* exact point (0.0, 0.0)
mgrs_to_decimal_degrees(mgrs_string) ==
    With(MgrsClean(mgrs_string), LAMBDA mgrs_clean :
        IF mgrs_clean # None /\ LibraryAccepts(mgrs_clean)
        THEN [lat |-> "lat(" \o Upper(mgrs_clean) \o ")",
              lon |-> "lon(" \o Upper(mgrs_clean) \o ")",
              hae |-> 0, ce |-> 10, le |-> 10]
        ELSE Sentinel)

\* [-]?\d+\.?\d* at i, taking as much as it can
NumberEnd(s, i) ==
    With(IF At(s, i, "-") THEN i + 1 ELSE i, LAMBDA j :
    With(DigitsEnd(s, j), LAMBDA a :
        IF a = j THEN 0
        ELSE IF At(s, a, ".") THEN DigitsEnd(s, a + 1)
        ELSE a))
\* the same without the fraction
IntegerEnd(s, i) ==
    With(IF At(s, i, "-") THEN i + 1 ELSE i, LAMBDA j :
    With(DigitsEnd(s, j), LAMBDA a :
        IF a = j THEN 0 ELSE a))
\* [,\s]+ then a second number, from e
PairRest(s, e) ==
    With(RunEnd(s, e, IsSep), LAMBDA second :
        IF e > 0 /\ second > e /\ NumberEnd(s, second) > 0 THEN second ELSE 0)
\* coord_patterns[0] at i: where the first number ends (0: no match at i)
BarePairSplit(s, i) ==
    With(NumberEnd(s, i), LAMBDA whole :
        IF PairRest(s, whole) > 0 THEN whole
        ELSE With(IntegerEnd(s, i), LAMBDA int :
                IF PairRest(s, int) > 0 THEN int ELSE 0))

IsColonOrSpace(c) == c = ":" \/ IsSpace(c)
\* `lat[:\s]*` or `lon[:\s]*` and a number at i: where the number starts
LabelledAt(s, i, label) ==
    With(RunEnd(s, i + 3, IsColonOrSpace), LAMBDA a :
        IF WordAt(s, i, label) /\ NumberEnd(s, a) > 0 THEN a ELSE 0)
\* coord_patterns[1] at i: where the number after the first later `lon` starts
LabelledLon(s, i) ==
    With(LabelledAt(s, i, "lat"), LAMBDA a :
        IF a = 0 THEN 0
        ELSE With({k \in NumberEnd(s, a)..Len(s) : LabelledAt(s, k, "lon") > 0}, LAMBDA lons :
                IF lons # {} THEN LabelledAt(s, MinOf(lons), "lon") ELSE 0))

RECURSIVE StripLeadingZeros(_)
StripLeadingZeros(d) ==
    IF Len(d) > 1 /\ CharAt(d, 1) = "0" THEN StripLeadingZeros(Rest(d)) ELSE d
RECURSIVE StripTrailingZeros(_)
StripTrailingZeros(d) ==
    IF Len(d) > 0 /\ CharAt(d, Len(d)) = "0"
    THEN StripTrailingZeros(SubSeq(d, 1, Len(d) - 1)) ELSE d
\* str(float(t)) for a match t of [-]?\d+\.?\d* (within the range float prints
\* without an exponent)
FloatStr(t) ==
    With(IF At(t, 1, "-") THEN 2 ELSE 1, LAMBDA j :
    With(DigitsEnd(t, j), LAMBDA a :
    With(StripTrailingZeros(SubSeq(t, a + 1, Len(t))), LAMBDA frac :
        (IF j = 2 THEN "-" ELSE "") \o StripLeadingZeros(SubSeq(t, j, a - 1)) \o "."
            \o (IF frac = "" THEN "0" ELSE frac))))
\* the text of the number that starts at i
NumberAt(s, i) == FloatStr(SubSeq(s, i, NumberEnd(s, i) - 1))

\* lines 129-144: the decimal (lat, lon) pair found in the text, or None
DecimalPair(s) ==
    With({i \in 1..Len(s) : BarePairSplit(s, i) > 0}, LAMBDA bare :
        IF bare # {}
        THEN With(MinOf(bare), LAMBDA i :
             With(BarePairSplit(s, i), LAMBDA e :
                 <<FloatStr(SubSeq(s, i, e - 1)), NumberAt(s, PairRest(s, e))>>))
        ELSE With({k \in 1..Len(s) : LabelledLon(s, k) > 0}, LAMBDA labelled :
                IF labelled # {}
                THEN With(MinOf(labelled), LAMBDA k :
                        <<NumberAt(s, LabelledAt(s, k, "lat")), NumberAt(s, LabelledLon(s, k))>>)
                ELSE None))

extract_coordinates_from_location(text) ==
    IF text = "" THEN Sentinel
    ELSE With(mgrs_to_decimal_degrees(text), LAMBDA grid :
            IF grid.lat # "0.0" \/ grid.lon # "0.0" THEN grid
            ELSE With(DecimalPair(text), LAMBDA pair :
                    IF pair # None
                    THEN [lat |-> pair[1], lon |-> pair[2], hae |-> 0, ce |-> 100, le |-> 100]
                    ELSE Sentinel))

(***************************************************************************)
(* Report templates                                                        *)
(***************************************************************************)
TemplateFieldIds(rt) ==
    CASE rt = "CONTACTREP" -> {"size", "activity", "location_desc", "unit_id",
                               "time_observed", "equipment"}
      [] rt = "SITREP"     -> {"dtg", "reporting_unit", "location_desc", "situation",
                               "personnel", "equipment_status", "supplies_status",
                               "mission_status", "comms_status", "next_report"}
      [] rt = "MEDEVAC"    -> {"pickup_location", "radio_freq", "patients_precedence",
                               "special_equipment", "patients_type", "security",
                               "marking_method", "patient_status", "nbc_contamination"}
      [] rt = "SPOTREP"    -> {"size", "activity", "location_desc", "unit",
                               "time_observed", "equipment"}
      [] rt = "SALUTE"     -> {"size", "activity", "location_desc", "unit", "time",
                               "equipment"}
      [] rt = "PATROLREP"  -> {"patrol_number", "task_purpose", "time_departed",
                               "time_returned", "route", "terrain", "weather",
                               "enemy_contact", "obstacles", "conclusion"}
      [] OTHER             -> {}

\* keys of load_report_templates(), in insertion order
load_report_templates ==
    <<"CONTACTREP", "SITREP", "MEDEVAC", "SPOTREP", "SALUTE", "PATROLREP">>

(***************************************************************************)
(* merge_extraction_results                                                *)
(***************************************************************************)
example_contamination == {"RAZOR", "THUNDER", "18TWL", "purple smoke", "47.55"}

\* mutant: the rule layer's value is taken for every field it holds
NeedsBackfill_always(first, fb, f) == f \in DOMAIN fb

\* line 879: the field is in the rule layer's map and missing or empty so far
NeedsBackfill(first, fb, f) ==
    f \in DOMAIN fb /\ (f \notin DOMAIN first \/ first[f] = "")

\* mutant: the contamination check is skipped, the ML value always wins
merge_extraction_results_keepai(ai, fb) ==
    [f \in (DOMAIN ai) \cup (DOMAIN fb) |->
        IF f \in DOMAIN ai /\ ai[f] # "" THEN ai[f]
        ELSE IF f \in DOMAIN fb THEN fb[f] ELSE ai[f]]

merge_extraction_results(ai, fb) ==
    LET first == [f \in DOMAIN ai |->
                    IF ai[f] # "" /\ \E ex \in example_contamination : Contains(ai[f], ex)
                    THEN IF f \in DOMAIN fb /\ fb[f] # "" THEN fb[f] ELSE ""
                    ELSE ai[f]]
    IN  [f \in (DOMAIN ai) \cup (DOMAIN fb) |->
            IF NeedsBackfill(first, fb, f) THEN fb[f] ELSE first[f]]

MergeFieldSeq == <<"reporting_unit", "method_of_marking", "location", "frequency">>
MergeValueSeq == <<"", "RAZOR 3-1", "WARHAWK 2-1", "purple smoke", "Purple smoke",
                   "RAZOR", "Red smoke", "18TWL9434567890", "35VNF61105197",
                   "freq 47.55", "124.5", "THUNDER 6">>
MergeFields == Prefix(MergeFieldSeq, NumMergeFields)
MergeValues == Prefix(MergeValueSeq, NumMergeValues)
MergeTypes  == {"MEDEVAC", "SITREP"}

IdleMerge    == ai_fields = EmptyMap /\ fallback_fields = EmptyMap /\ merged = None
IdleValidate == extracted_fields = EmptyMap /\ validated = None
IdleClassify == transcript = "" /\ report_templates = <<>> /\ classification = None
IdleEncode   == report_data = EmptyMap /\ reporting_unit = None /\ clock = 0 /\ event = None
IdleResolve  == location_text = "" /\ coords = None
IdleGenerate == files = EmptyMap /\ generated = None
IdleSend     == /\ sender = None /\ tak_scheme = None /\ xml_file_path = None
                /\ xml_data = None /\ sock = "none" /\ tx_queue = <<>> /\ wire = <<>>
                /\ send_result = None
IdleExtract  == rule_fields = EmptyMap
IdleProcess  == processed_fields = None
IdleNormalize == normalized = None /\ renormalized = None
IdleGrid == grid_input = "" /\ grid_path = None /\ grid_handed = None /\ grid_result = None
IdlePair == reports = <<>> /\ returned = <<>> /\ delivered = <<>> /\ stage = <<>>
IdleCompare == other_transcript = "" /\ other_classification = None
IdleRevalidate == revalidated = None
IdleSerializer == sent = FALSE /\ run_pc = <<>> /\ pending = <<>>
IdleExtension == /\ IdleGenerate /\ IdleSend /\ IdleExtract /\ IdleProcess
                 /\ IdleNormalize /\ IdleGrid /\ IdlePair /\ IdleCompare /\ IdleRevalidate /\ IdleSerializer

InitMerge ==
    /\ pc = "start"
    /\ report_type \in MergeTypes
    /\ ai_fields \in FieldMaps(MergeFields, MergeValues)
    /\ fallback_fields \in FieldMaps(MergeFields, MergeValues)
    /\ merged = None
    /\ IdleValidate /\ IdleClassify /\ IdleEncode /\ IdleResolve /\ IdleExtension

Merge ==
    /\ pc = "start"
    /\ merged' = merge_extraction_results(ai_fields, fallback_fields)
    /\ pc' = "merged"
    /\ UNCHANGED <<ai_fields, fallback_fields, report_type, validateVars,
                   classifyVars, encodeVars, resolveVars, extensionVars>>

NextMerge == Merge
SpecMerge == InitMerge /\ [][NextMerge]_vars

\* C1: a contaminated ML value is replaced by the rule layer's non-empty value
\* for that field, and by the empty string when the rule layer has none.
IsContaminatedValue(v) ==
    \/ Contains(v, "RAZOR") \/ Contains(v, "THUNDER") \/ Contains(v, "18TWL")
    \/ Contains(v, "purple smoke") \/ Contains(v, "47.55")
HasRuleValue(f) == f \in DOMAIN fallback_fields /\ fallback_fields[f] # ""
C1_ContaminationRemoved ==
    pc = "merged" =>
        \A f \in DOMAIN ai_fields :
            IsContaminatedValue(ai_fields[f]) =>
                /\ f \in DOMAIN merged
                /\ merged[f] = IF HasRuleValue(f) THEN fallback_fields[f] ELSE ""
C1_Witness ==
    /\ pc = "merged"
    /\ \E f \in DOMAIN ai_fields :
          /\ IsContaminatedValue(ai_fields[f])
          /\ HasRuleValue(f)
          /\ fallback_fields[f] # ai_fields[f]
          /\ merged[f] = fallback_fields[f]
    /\ \E g \in DOMAIN ai_fields :
          /\ IsContaminatedValue(ai_fields[g])
          /\ ~HasRuleValue(g)
          /\ merged[g] = ""

\* C3: after the merge every field id of the report type's template is a key
\* of the merged map.
C3_TemplateFieldsPresent ==
    pc = "merged" => \A f \in TemplateFieldIds(report_type) : f \in DOMAIN merged

(***************************************************************************)
(* validate_military_extraction                                            *)
(***************************************************************************)
\* the int() of a stored count; an absent key reads the default 0
CountOf(m, k) == IF Has(m, k) THEN ParseInt(m[k]) ELSE [ok |-> TRUE, val |-> 0]

\* lines 625-628: equipment implies a higher precedence
EscalatePrecedence(v) ==
    IF /\ Lower(Get(v, "special_equipment", "")) \in {"ventilator", "trauma team"}
       /\ Lower(Get(v, "patient_precedence", "")) = "priority"
    THEN Put(v, "patient_precedence", "Urgent surgical")
    ELSE v

\* lines 630-648: make litter + ambulatory add up to the total
RepairPatientCounts(v) ==
    LET total == CountOf(v, "number_patients")
        lit == CountOf(v, "number_litter")
        amb == CountOf(v, "number_ambulatory")
    IN  IF ~(total.ok /\ lit.ok /\ amb.ok) THEN v          \* except ValueError: pass
        ELSE IF lit.val + amb.val # total.val /\ total.val > 0
        THEN LET litter == IF lit.val > 0 /\ amb.val = 0 THEN lit.val
                           ELSE IF amb.val > 0 /\ lit.val = 0 THEN total.val - amb.val
                           ELSE Max(1, total.val \div 2)
                 ambulatory == total.val - litter
             IN  Put(Put(v, "number_litter", IntToStr(litter)),
                     "number_ambulatory", IntToStr(ambulatory))
        ELSE v

\* lines 650-658: append an approximate head count to a bare echelon name
size_map == <<<<"team", "4">>, <<"squad", "9">>, <<"platoon", "30">>, <<"company", "120">>>>
\* mutant: the head count is appended to a size that already holds digits
EnemySizeCount_again(v) ==
    LET size_field == Get(v, "enemy_size", "")
        hits == {i \in 1..Len(size_map) : Contains(Lower(size_field), size_map[i][1])}
        first == CHOOSE i \in hits : \A j \in hits : i <= j
    IN  IF size_field # "" /\ hits # {}
        THEN Put(v, "enemy_size", size_field \o " (~" \o size_map[first][2] \o " personnel)")
        ELSE v

EnemySizeCount(v) ==
    LET size_field == Get(v, "enemy_size", "")
        hits == {i \in 1..Len(size_map) : Contains(Lower(size_field), size_map[i][1])}
        first == CHOOSE i \in hits : \A j \in hits : i <= j
    IN  IF size_field # "" /\ ~AnyDigit(size_field) /\ hits # {}
        THEN Put(v, "enemy_size", size_field \o " (~" \o size_map[first][2] \o " personnel)")
        ELSE v

\* re.match(r"^[0-9]{1,2}[A-Z]{1,3}[A-Z]{2}[0-9]+$", g)
IsBareGrid(g) ==
    \E nd \in 1..2 : \E nl \in 3..5 :
        /\ Len(g) > nd + nl
        /\ \A i \in 1..Len(g) :
              IF i <= nd THEN IsDigit(CharAt(g, i))
              ELSE IF i <= nd + nl THEN IsUpper(CharAt(g, i))
              ELSE IsDigit(CharAt(g, i))

\* lines 660-669: universal normalisations
UpperCallsign(v) ==
    IF Has(v, "reporting_unit") /\ v["reporting_unit"] # ""
    THEN Put(v, "reporting_unit", Upper(v["reporting_unit"]))
    ELSE v
NormalizeGrids(v) ==
    [f \in DOMAIN v |->
        IF f \in {"location", "grid", "pickup_location"} /\ v[f] # ""
           /\ IsBareGrid(RemoveSpaces(Upper(v[f])))
        THEN RemoveSpaces(Upper(v[f]))
        ELSE v[f]]

validate_military_extraction(rt, fields) ==
    LET typed == IF rt = "MEDEVAC" THEN RepairPatientCounts(EscalatePrecedence(fields))
                 ELSE IF rt = "CONTACTREP" THEN EnemySizeCount(fields)
                 ELSE fields
    IN  NormalizeGrids(UpperCallsign(typed))

NumCountValues == 5
CountValueSeq == <<"", "0", "1", "2", "3", "5", "two", " 4 ", "-1">>
CountValues == Prefix(CountValueSeq, NumCountValues)
ValidateTypes == {"MEDEVAC", "CONTACTREP", "SITREP"}
\* the candidate values of each field; Absent stands for a key that is not there
Absent == "<absent>"
ValidateChoices ==
    [number_patients    : CountValues \cup {Absent},
     number_litter      : CountValues \cup {Absent},
     number_ambulatory  : CountValues \cup {Absent},
     special_equipment  : {Absent, "Ventilator"},
     patient_precedence : {Absent, "Priority"},
     enemy_size         : {Absent, "squad", "30 fighters"},
     reporting_unit     : {Absent, "warhawk 2-1"},
     location           : {Absent, "35v nf 6110 5197"}]
\* the dict holding the keys of r that are present
Present(r) == [k \in {x \in DOMAIN r : r[x] # Absent} |-> r[k]]

InitValidate ==
    /\ pc = "start"
    /\ report_type \in ValidateTypes
    /\ \E r \in ValidateChoices : extracted_fields = Present(r)
    /\ validated = None
    /\ IdleMerge /\ IdleClassify /\ IdleEncode /\ IdleResolve /\ IdleExtension

Validate ==
    /\ pc = "start"
    /\ validated' = validate_military_extraction(report_type, extracted_fields)
    /\ pc' = "validated"
    /\ UNCHANGED <<extracted_fields, report_type, mergeVars, classifyVars,
                   encodeVars, resolveVars, extensionVars>>

NextValidate == Validate
SpecValidate == InitValidate /\ [][NextValidate]_vars

\* C2: after MEDEVAC validation litter + ambulatory = number_patients whenever
\* number_patients parses as a positive integer.
TotalIsPositive(m) ==
    Has(m, "number_patients") /\ ParseInt(m["number_patients"]).ok
        /\ ParseInt(m["number_patients"]).val > 0
C2_PatientCountsAddUp ==
    (pc = "validated" /\ report_type = "MEDEVAC" /\ TotalIsPositive(extracted_fields)) =>
        /\ CountOf(validated, "number_litter").ok
        /\ CountOf(validated, "number_ambulatory").ok
        /\ CountOf(validated, "number_litter").val
              + CountOf(validated, "number_ambulatory").val
           = CountOf(validated, "number_patients").val

(***************************************************************************)
(* determine_report_type_enhanced                                          *)
(*                                                                         *)
(* Scores and confidences are exact rationals <<numerator, denominator>>   *)
(* (denominator > 0); weights are kept in tenths.                          *)
(***************************************************************************)
RLt(a, b) == a[1] * b[2] < b[1] * a[2]
RLe(a, b) == a[1] * b[2] <= b[1] * a[2]
REq(a, b) == a[1] * b[2] = b[1] * a[2]
RZero == <<0, 1>>
ROne == <<1, 1>>

\* REPORT_TYPE_INDICATORS, in insertion order; weight10 is the weight in tenths
REPORT_TYPE_INDICATORS ==
    << [type |-> "CONTACTREP",
        keywords |-> <<"enemy contact", "troops in contact", "TIC", "engaged",
                       "receiving fire", "contact report", "hostile",
                       "enemy activity", "under fire", "engagement">>,
        priority_indicators |-> <<"immediate", "troops in contact", "casualty",
                                  "under fire">>,
        weight10 |-> 15],
       [type |-> "MEDEVAC",
        keywords |-> <<"casualty", "wounded", "injured", "medevac",
                       "medical evacuation", "nine line", "9 line", "patient",
                       "urgent surgical", "priority patient", "litter",
                       "ambulatory", "ventilator", "bleeding">>,
        priority_indicators |-> <<"urgent", "flash", "immediate", "critical">>,
        weight10 |-> 20],
       [type |-> "SITREP",
        keywords |-> <<"situation report", "sitrep", "status update",
                       "current situation", "nothing to report", "all quiet",
                       "routine", "normal operations">>,
        priority_indicators |-> <<"routine", "no change">>,
        weight10 |-> 5],
       [type |-> "SPOTREP",
        keywords |-> <<"spot report", "spotrep", "observed", "sighting",
                       "surveillance", "enemy movement", "vehicle spotted",
                       "personnel observed">>,
        priority_indicators |-> <<"immediate", "priority">>,
        weight10 |-> 10],
       [type |-> "SALUTE",
        keywords |-> <<"size", "activity", "location", "unit", "time", "equipment",
                       "salute report", "enemy observation">>,
        priority_indicators |-> <<"priority", "immediate">>,
        weight10 |-> 12] >>

Range(seq) == {seq[i] : i \in 1..Len(seq)}
CountIn(words, text) == Cardinality({i \in 1..Len(words) : Contains(text, words[i])})

\* lines 435-450: the normalised score of one report type
TypeScore(indicators, transcript_lower) ==
    LET keyword_matches == CountIn(indicators.keywords, transcript_lower)
        score10 == indicators.weight10 * keyword_matches
                     + 5 * CountIn(indicators.priority_indicators, transcript_lower)
    IN  IF keyword_matches > 0
        THEN <<score10, 10 * Len(indicators.keywords)>>
        ELSE RZero

\* mutant: the confidence is not capped at 1.0
ConfidenceOf_uncapped(score) == <<score[1], 2 * score[2]>>

\* line 454: confidence = min(best_match[1] / 2.0, 1.0)
ConfidenceOf(score) ==
    IF RLt(ROne, <<score[1], 2 * score[2]>>) THEN ROne ELSE <<score[1], 2 * score[2]>>

determine_report_type_enhanced(text, templates) ==
    LET transcript_lower == Lower(text)
        \* the types that get a score, in the order scores is filled
        scored == {i \in 1..Len(REPORT_TYPE_INDICATORS) :
                      REPORT_TYPE_INDICATORS[i].type \in Range(templates)}
        score(i) == TypeScore(REPORT_TYPE_INDICATORS[i], transcript_lower)
        \* max() returns the first item holding the largest score
        best == CHOOSE i \in scored :
                    /\ \A j \in scored : RLe(score(j), score(i))
                    /\ \A j \in scored : (j < i) => RLt(score(j), score(i))
        confidence == ConfidenceOf(score(best))
        literal == {k \in 1..Len(templates) : Contains(transcript_lower, Lower(templates[k]))}
        firstLiteral == CHOOSE k \in literal : \A j \in literal : k <= j
    IN  IF scored # {}
        THEN IF RLt(confidence, <<3, 10>>) /\ literal # {}
             THEN [report_type |-> templates[firstLiteral], confidence |-> <<8, 10>>]
             ELSE [report_type |-> REPORT_TYPE_INDICATORS[best].type,
                   confidence |-> confidence]
        ELSE [report_type |-> "SITREP", confidence |-> <<3, 10>>]

MaxPhrases == 3
NumPhrases == 7
PhraseSeq ==
    <<"enemy contact", "troops in contact", "receiving fire",
      "casualty wounded injured medevac medical evacuation nine line 9 line priority patient urgent surgical litter ambulatory ventilator bleeding",
      "PATROLREP", "hello there", "Sitrep follows", "immediate", "size of unit">>
Phrases == Prefix(PhraseSeq, NumPhrases)
\* the phrases of a transmission, comma separated
RECURSIVE JoinPhrases(_)
JoinPhrases(ps) ==
    IF ps = <<>> THEN ""
    ELSE IF Len(ps) = 1 THEN ps[1]
    ELSE ps[1] \o ", " \o JoinPhrases(Tail(ps))
Transcripts == {JoinPhrases(ps) : ps \in UNION {[1..n -> Phrases] : n \in 0..MaxPhrases}}
TemplateTables ==
    {load_report_templates, <<"PATROLREP">>, <<"SITREP", "MEDEVAC">>, <<>>}

InitClassify ==
    /\ pc = "start"
    /\ transcript \in Transcripts
    /\ report_templates \in TemplateTables
    /\ classification = None
    /\ report_type = None
    /\ IdleMerge /\ IdleValidate /\ IdleEncode /\ IdleResolve /\ IdleExtension

Classify ==
    /\ pc = "start"
    /\ classification' = determine_report_type_enhanced(transcript, report_templates)
    /\ pc' = "classified"
    /\ UNCHANGED <<transcript, report_templates, report_type, mergeVars, validateVars,
                   encodeVars, resolveVars, extensionVars>>

NextClassify == Classify
SpecClassify == InitClassify /\ [][NextClassify]_vars

AnyKeywordOrLiteral(text) ==
    \/ \E i \in 1..Len(REPORT_TYPE_INDICATORS) :
          CountIn(REPORT_TYPE_INDICATORS[i].keywords, Lower(text)) > 0
    \/ \E k \in 1..Len(load_report_templates) :
          Contains(Lower(text), Lower(load_report_templates[k]))

\* C4: with the standard templates, a transcript holding no keyword and no
\* report-type literal (the empty one included) classifies as (SITREP, 0.3).
C4_InertDefault ==
    (pc = "classified" /\ report_templates = load_report_templates
        /\ ~AnyKeywordOrLiteral(transcript)) =>
        /\ classification.report_type = "SITREP"
        /\ REq(classification.confidence, <<3, 10>>)

\* C5: the three-phrase contact transcript classifies as CONTACTREP with a
\* confidence of at least 0.3.
C5_ContactScenario ==
    (pc = "classified" /\ report_templates = load_report_templates
        /\ transcript = "enemy contact, troops in contact, receiving fire") =>
        /\ classification.report_type = "CONTACTREP"
        /\ RLe(<<3, 10>>, classification.confidence)

\* C6: for a non-empty template table the returned type is one of its keys.
C6_TypeIsTemplateKey ==
    (pc = "classified" /\ report_templates # <<>>) =>
        classification.report_type \in Range(report_templates)

\* C7: the returned confidence lies in [0, 1] on every return path.
C7_ConfidenceBound ==
    pc = "classified" =>
        /\ RLe(RZero, classification.confidence)
        /\ RLe(classification.confidence, ROne)
\* the arg-max path with a raw score above 2.0, where the cap decides
C7_Witness ==
    /\ pc = "classified"
    /\ classification.report_type = "MEDEVAC"
    /\ REq(classification.confidence, ROne)
    /\ RLt(<<2, 1>>, TypeScore(REPORT_TYPE_INDICATORS[2], Lower(transcript)))

(***************************************************************************)
(* Coordinate resolver, applied to one location text                       *)
(***************************************************************************)
NumGrids == 5
NumPairs == 4
NumOtherTexts == 9
GridSeq == <<"35VNF61105197", "4QFJ12345678", "34TFM1234", "18TWL9434567890",
             "31UDQ48", "35VNF6110051970">>
\* zone and band, square, easting, northing, separated by spaces
SpacedGrid(g) ==
    With(DigitsEnd(g, 1), LAMBDA z :
    With((Len(g) - (z + 2)) \div 2, LAMBDA half :
        SubSeq(g, 1, z) \o " " \o SubSeq(g, z + 1, z + 2) \o " "
            \o SubSeq(g, z + 3, z + 2 + half) \o " " \o SubSeq(g, z + 3 + half, Len(g))))
GridSpellings(g) == {g, "grid " \o g, Lower(g), SpacedGrid(g), "MGRS: " \o g}
\* texts that are a well-formed MGRS grid, as written or as spoken
ValidGridTexts ==
    UNION {GridSpellings(g) : g \in Prefix(GridSeq, NumGrids)}
        \cup {"3, 5, Victor, November, Foxtrot, 6, 1, 1, 0, 5, 1, 9, 7",
              "three five Victor November Foxtrot six one one zero five one nine seven",
              "grid 3, 5, Victor, November, Foxtrot, 6, 1, 1, 0, 5, 1, 9, 7"}
PairSeq == << <<"59.437", "24.7536">>, <<"-33.9", "151.2">>, <<"0", "0">>,
              <<"59", "24.5">>, <<"7.50", "-0.25">> >>
\* texts that are a bare decimal (lat, lon) pair
BarePairTexts ==
    UNION {{pr[1] \o ", " \o pr[2], pr[1] \o " " \o pr[2], pr[1] \o "," \o pr[2]} :
           pr \in Prefix(PairSeq, NumPairs)}
LabelledPairTexts ==
    {"lat: " \o pr[1] \o " lon: " \o pr[2] : pr \in Prefix(PairSeq, NumPairs)}
OtherTextSeq == <<"Grid TBD", "near the bridge", "35V NF 611 51", "35VNF6110519",
                  "unknown", "99ZZZ1234", "2 km north of the river", "LZ Robin",
                  "35VNF 6110 519", "35VNF">>
\* texts that are neither a well-formed grid nor a decimal pair
UnparseableTexts == Prefix(OtherTextSeq, NumOtherTexts) \cup {""}
\* free text that mentions two numbers
NumberedTexts == {"checkpoint 7, 3 vehicles", "hill 450, 2 km east"}
LocationTexts ==
    ValidGridTexts \cup BarePairTexts \cup LabelledPairTexts \cup UnparseableTexts
        \cup NumberedTexts

InitResolve ==
    /\ pc = "start"
    /\ location_text \in LocationTexts
    /\ coords = None
    /\ report_type = None
    /\ IdleMerge /\ IdleValidate /\ IdleClassify /\ IdleEncode /\ IdleExtension

Resolve ==
    /\ pc = "start"
    /\ coords' = extract_coordinates_from_location(location_text)
    /\ pc' = "resolved"
    /\ UNCHANGED <<location_text, report_type, mergeVars, validateVars, classifyVars,
                   encodeVars, extensionVars>>

NextResolve == Resolve
SpecResolve == InitResolve /\ [][NextResolve]_vars

\* C9: a valid grid yields ce = le = 10, a bare decimal pair yields ce = 100,
\* and a text that is neither yields the unknown sentinel.
C9_AccuracyOrdering ==
    pc = "resolved" =>
        /\ location_text \in ValidGridTexts => (coords.ce = 10 /\ coords.le = 10)
        /\ location_text \in BarePairTexts => coords.ce = 100
        /\ location_text \in UnparseableTexts =>
              (coords = Sentinel /\ coords.ce >= 9999999)

(***************************************************************************)
(* CoT encoder                                                             *)
(***************************************************************************)
COT_TYPE_MAPPINGS ==
    [MEDEVAC    |-> [default |-> "a-f-G-U-C-I-M-E",
                     priority_based |-> [flash     |-> "a-f-G-E-V-A-M",
                                         immediate |-> "a-f-G-U-C-I-M-E",
                                         priority  |-> "a-f-G-U-C-I-M",
                                         routine   |-> "a-f-G-U-C-I"]],
     CONTACTREP |-> [default |-> "a-h-G",
                     priority_based |-> [immediate |-> "a-h-G-E-V-A",
                                         priority  |-> "a-h-G",
                                         routine   |-> "a-h-G"]],
     SITREP     |-> [default |-> "a-f-G-U-C",
                     all_clear |-> "a-f-G-U-C-F"]]

priority_fields == <<"priority", "precedence", "urgency", "patient_precedence">>
\* the level a priority value names, None when it names none
PriorityLevel(v) ==
    With(Lower(v), LAMBDA value :
        IF Contains(value, "flash") THEN "flash"
        ELSE IF Contains(value, "immediate") \/ Contains(value, "urgent") THEN "immediate"
        ELSE IF Contains(value, "priority") THEN "priority"
        ELSE None)
extract_priority_from_data(data) ==
    With({k \in 1..Len(priority_fields) :
            /\ Has(data, priority_fields[k])
            /\ data[priority_fields[k]] # ""
            /\ PriorityLevel(data[priority_fields[k]]) # None}, LAMBDA hits :
        IF hits = {} THEN "routine"
        ELSE PriorityLevel(data[priority_fields[MinOf(hits)]]))

determine_cot_type(rt, data) ==
    IF rt \notin DOMAIN COT_TYPE_MAPPINGS THEN "a-f-G-U-C"
    ELSE With(extract_priority_from_data(data), LAMBDA priority :
            IF /\ "priority_based" \in DOMAIN COT_TYPE_MAPPINGS[rt]
               /\ priority \in DOMAIN COT_TYPE_MAPPINGS[rt].priority_based
            THEN COT_TYPE_MAPPINGS[rt].priority_based[priority]
            ELSE COT_TYPE_MAPPINGS[rt].default)

\* stale_hours, in half hours, and the seconds of half an hour
stale_half_hours == [flash |-> 1, immediate |-> 2, priority |-> 4, routine |-> 8]
HalfHourSeconds == 1800
stale_seconds(priority) ==
    (IF priority \in DOMAIN stale_half_hours THEN stale_half_hours[priority] ELSE 2)
        * HalfHourSeconds

location_field_map ==
    [MEDEVAC    |-> <<"location", "pickup_location", "line1_location", "grid">>,
     CONTACTREP |-> <<"location", "enemy_location", "location_desc", "grid">>,
     SITREP     |-> <<"location", "current_location", "location_desc">>,
     SPOTREP    |-> <<"location_desc", "location">>,
     SALUTE     |-> <<"location_desc", "location">>,
     PATROLREP  |-> <<"location", "current_position">>]
location_fields(rt) ==
    IF rt \in DOMAIN location_field_map THEN location_field_map[rt]
    ELSE <<"location", "location_desc", "grid">>
\* the first field of the list that the data holds with a non-empty value
FirstFilled(data, fields) ==
    With({k \in 1..Len(fields) : Has(data, fields[k]) /\ data[fields[k]] # ""}, LAMBDA hits :
        IF hits = {} THEN None ELSE fields[MinOf(hits)])
EventCoords(rt, data) ==
    With(FirstFilled(data, location_fields(rt)), LAMBDA field :
        IF field = None THEN Sentinel
        ELSE extract_coordinates_from_location(data[field]))

EventCallsign(data, unit) ==
    With(IF unit # None /\ unit # "" THEN unit
         ELSE Get(data, "reporting_unit", "UNKNOWN"), LAMBDA callsign :
    With(FirstFilled(data, <<"callsign", "unit", "from_unit">>), LAMBDA field :
        IF callsign = "UNKNOWN" /\ field # None THEN Upper(data[field]) ELSE callsign))

group_colors ==
    [MEDEVAC |-> "White", CONTACTREP |-> "Red", SITREP |-> "Blue", SPOTREP |-> "Yellow"]
GroupName(rt) == IF rt \in DOMAIN group_colors THEN group_colors[rt] ELSE "Blue"

remarks_text(rt, callsign, priority) ==
    IF priority \in {"flash", "immediate"}
    THEN "**" \o Upper(priority) \o "** " \o rt \o " from " \o callsign
    ELSE rt \o " from " \o callsign

field_mappings ==
    << <<"location", "line1">>, <<"frequency", "line2">>,
       <<"number_patients", "line3_patients">>, <<"patient_precedence", "line3_precedence">>,
       <<"special_equipment", "line4">>, <<"number_litter", "line5_litter">>,
       <<"number_ambulatory", "line5_ambulatory">>, <<"security_at_pickup", "line6">>,
       <<"method_of_marking", "line7">>, <<"patient_nationality", "line8">>,
       <<"nbc_contamination", "line9">> >>
contact_fields ==
    << <<"enemy_size", "enemy_size">>, <<"enemy_activity", "enemy_activity">>,
       <<"enemy_equipment", "enemy_equipment">>, <<"friendly_status", "friendly_status">> >>
\* one child <tag, text> per mapped field the data holds with a non-empty value
RECURSIVE Children(_, _, _)
Children(data, mapping, k) ==
    IF k > Len(mapping) THEN <<>>
    ELSE IF Has(data, mapping[k][1]) /\ data[mapping[k][1]] # ""
    THEN <<[tag |-> mapping[k][2], text |-> data[mapping[k][1]]]>>
            \o Children(data, mapping, k + 1)
    ELSE Children(data, mapping, k + 1)
\* the report-specific element of <detail>; tag None: there is none
ReportDetail(rt, data) ==
    IF rt = "MEDEVAC" THEN [tag |-> "_medevac", children |-> Children(data, field_mappings, 1)]
    ELSE IF rt = "CONTACTREP"
    THEN [tag |-> "_contact", children |-> Children(data, contact_fields, 1)]
    ELSE [tag |-> None, children |-> <<>>]

\* what create_cot_event has computed when it comes to read the clock
EventContent(rt, data, unit, uuid) ==
    [version  |-> "2.0",
     type     |-> determine_cot_type(rt, data),
     uid      |-> rt \o "-" \o uuid,
     how      |-> "h-g-i-g-o",
     window   |-> stale_seconds(extract_priority_from_data(data)),
     point    |-> EventCoords(rt, data),
     callsign |-> EventCallsign(data, unit),
     group    |-> [name |-> GroupName(rt), role |-> "Team Member"],
     remarks  |-> remarks_text(rt, EventCallsign(data, unit),
                               extract_priority_from_data(data)),
     detail   |-> ReportDetail(rt, data)]
\* the event's time, start and stale attributes, from three successive readings
\* t1, t2, t3 of the clock
Timestamped(content, t1, t2, t3) ==
    [version  |-> content.version,
     type     |-> content.type,
     uid      |-> content.uid,
     how      |-> content.how,
     time     |-> t1,
     start    |-> t2,
     stale    |-> t3 + content.window,
     point    |-> content.point,
     callsign |-> content.callsign,
     group    |-> content.group,
     remarks  |-> content.remarks,
     detail   |-> content.detail]

\* ET.tostring: character data with & < > written as entities
XmlEscapeChar(c) ==
    IF c = "&" THEN "&amp;" ELSE IF c = "<" THEN "&lt;" ELSE IF c = ">" THEN "&gt;" ELSE c
RECURSIVE XmlEscape(_)
XmlEscape(s) ==
    IF Len(s) = 0 THEN ""
    ELSE IF Len(s) = 1 THEN XmlEscapeChar(s)
    ELSE XmlEscape(SubSeq(s, 1, Len(s) \div 2))
            \o XmlEscape(SubSeq(s, (Len(s) \div 2) + 1, Len(s)))
\* an XML parser reading character data: the entities back to their characters
\* the literal t stands at position i of s
StartsAt(s, i, t) == i + Len(t) - 1 <= Len(s) /\ SubSeq(s, i, i + Len(t) - 1) = t
RECURSIVE XmlUnescape(_, _)
XmlUnescape(s, i) ==
    IF i > Len(s) THEN ""
    ELSE IF StartsAt(s, i, "&amp;") THEN "&" \o XmlUnescape(s, i + 5)
    ELSE IF StartsAt(s, i, "&lt;") THEN "<" \o XmlUnescape(s, i + 4)
    ELSE IF StartsAt(s, i, "&gt;") THEN ">" \o XmlUnescape(s, i + 4)
    ELSE CharAt(s, i) \o XmlUnescape(s, i + 1)
\* the bytes of one child element of the report-specific element
ChildXml(child) ==
    "<" \o child.tag \o ">" \o XmlEscape(child.text) \o "</" \o child.tag \o ">"
\* the text a parser reads back from the bytes of one child element
ChildText(xml, tag) ==
    XmlUnescape(SubSeq(xml, Len(tag) + 3, Len(xml) - Len(tag) - 3), 1)

\* the most seconds the clock advances between two of its readings
MaxElapsed == 1
Uuids == {"7d9f2c1e-0000-4000-8000-000000000001"}
EncodeReportTypes == {"MEDEVAC", "CONTACTREP", "SITREP", "LOGREP"}
EncodeChoices ==
    [reporting_unit     : {Absent, "", "WARHAWK 2-1"},
     callsign           : {Absent, "alpha 1"},
     unit               : {Absent, "Bravo"},
     from_unit          : {Absent, "CHARLIE"},
     priority           : {Absent, "Flash", "priority"},
     patient_precedence : {Absent, "1 urgent surgical"},
     location           : {Absent, "35VNF61105197", "Grid TBD"},
     enemy_size         : {Absent, "5", "<10 & >5"}]
UnitOverrides == {None, "", "EAGLE 6"}

InitEncode ==
    /\ pc = "start"
    /\ report_type \in EncodeReportTypes
    /\ \E r \in EncodeChoices : report_data = Present(r)
    /\ reporting_unit \in UnitOverrides
    /\ clock = 0
    /\ event = None
    /\ IdleMerge /\ IdleValidate /\ IdleClassify /\ IdleResolve /\ IdleExtension

create_cot_event ==
    /\ pc = "start"
    /\ \E uuid \in Uuids :
          \E content \in {EventContent(report_type, report_data, reporting_unit, uuid)} :
             \E d1 \in 0..MaxElapsed, d2 \in 0..MaxElapsed :
                /\ event' = Timestamped(content, clock, clock + d1, clock + d1 + d2)
                /\ clock' = clock + d1 + d2
    /\ pc' = "encoded"
    /\ UNCHANGED <<report_type, report_data, reporting_unit, mergeVars, validateVars,
                   classifyVars, resolveVars, extensionVars>>

NextEncode == create_cot_event
SpecEncode == InitEncode /\ [][NextEncode]_vars

\* C8: the event's start equals its time, and its stale equals its time plus the
\* window of the report's priority (30, 60, 120 or 240 minutes).
C8_TimingWindow ==
    pc = "encoded" =>
        /\ event.start = event.time
        /\ event.stale = event.time +
              60 * (CASE extract_priority_from_data(report_data) = "flash"     -> 30
                      [] extract_priority_from_data(report_data) = "immediate" -> 60
                      [] extract_priority_from_data(report_data) = "priority"  -> 120
                      [] OTHER                                                 -> 240)

\* the first non-empty of the override, reporting_unit, callsign, unit, from_unit
FirstNonEmptyUnit ==
    LET order == <<reporting_unit, Get(report_data, "reporting_unit", ""),
                   Get(report_data, "callsign", ""), Get(report_data, "unit", ""),
                   Get(report_data, "from_unit", "")>>
        hits == {k \in 1..Len(order) : order[k] # None /\ order[k] # ""}
    IN  IF hits = {} THEN "UNKNOWN" ELSE order[MinOf(hits)]

\* C10: the contact callsign is the first non-empty of the override, reporting_unit,
\* callsign, unit and from_unit, and "UNKNOWN" when none of them is set.
C10_CallsignResolution ==
    pc = "encoded" => event.callsign = FirstNonEmptyUnit

\* the field values a parser recovers from the report-specific element of the
\* event: child tag -> text
ParsedDetail(ev) ==
    [t \in {ev.detail.children[k].tag : k \in 1..Len(ev.detail.children)} |->
        With(CHOOSE k \in 1..Len(ev.detail.children) : ev.detail.children[k].tag = t,
             LAMBDA k : ChildText(ChildXml(ev.detail.children[k]), t))]

\* C11: for a report type with a template, parsing the encoded event recovers every
\* non-empty field value of the field map, byte for byte, from a child named by the
\* field id inside the report-specific detail element.
C11_RoundTrip ==
    (pc = "encoded" /\ report_type \in Range(load_report_templates)) =>
        \A f \in DOMAIN report_data :
            report_data[f] # "" =>
                /\ f \in DOMAIN ParsedDetail(event)
                /\ ParsedDetail(event)[f] = report_data[f]

(***************************************************************************)
(* The file encoder: generate_cot_xml (cot_xml.py)                         *)
(***************************************************************************)
\* title, cot_type and xml_element of each template (reports.py).
TemplateInfo ==
    [CONTACTREP |-> [title |-> "Contact Report", cot_type |-> "a-h-G",
                     xml_element |-> "contact_report"],
     SITREP     |-> [title |-> "Situation Report", cot_type |-> "a-f-G-U-C",
                     xml_element |-> "sitrep"],
     MEDEVAC    |-> [title |-> "Medical Evacuation Request", cot_type |-> "b-r-f-h-c",
                     xml_element |-> "medevac"],
     SPOTREP    |-> [title |-> "Spot Report", cot_type |-> "a-f-G-E",
                     xml_element |-> "spot_report"],
     SALUTE     |-> [title |-> "SALUTE Report", cot_type |-> "a-h-G-U-C-I",
                     xml_element |-> "salute"],
     PATROLREP  |-> [title |-> "Patrol Report", cot_type |-> "a-f-G-P",
                     xml_element |-> "patrol_report"]]

HourSeconds == 3600

\* cot_xml.mgrs_to_decimal_degrees: a placeholder that ignores its argument.
placeholder_degrees == [lat |-> "34.0", lon |-> "-118.0", hae |-> "0.0"]

GeneratedCoords(data) ==
    With(FirstFilled(data, <<"location_desc", "pickup_location", "location">>),
         LAMBDA location_field :
            IF location_field # None
               /\ (Contains(data[location_field], "MGRS") \/ AnyDigit(data[location_field]))
            THEN placeholder_degrees
            ELSE [lat |-> "0.0", lon |-> "0.0", hae |-> "0.0"])

GeneratedCallsign(data, unit) ==
    IF unit # None /\ unit # "" THEN unit
    ELSE IF Has(data, "reporting_unit") THEN data["reporting_unit"]
    ELSE IF Has(data, "unit") THEN data["unit"]
    ELSE "UNKNOWN"

GeneratedRemarks(template, data) ==
    template.title \o " - Generated by RepGen"
        \o (IF Has(data, "situation") THEN ": " \o data["situation"] ELSE "")

\* The event generate_cot_xml builds.  The children of the report element
\* are kept as a set: their order is the dict's insertion order, which a
\* field map of the model does not carry.
GeneratedEvent(rt, data, unit, uuid, now) ==
    With(TemplateInfo[rt], LAMBDA template :
        [version  |-> "2.0",
         uid      |-> uuid,
         type     |-> template.cot_type,
         time     |-> now,
         start    |-> now,
         stale    |-> now + HourSeconds,
         how      |-> "h-g-i-g-o",
         point    |-> [lat |-> GeneratedCoords(data).lat,
                       lon |-> GeneratedCoords(data).lon,
                       hae |-> GeneratedCoords(data).hae,
                       ce  |-> "9999999.0",
                       le  |-> "9999999.0"],
         callsign |-> GeneratedCallsign(data, unit),
         group    |-> [name |-> "Yellow", role |-> "Team Member"],
         remarks  |-> GeneratedRemarks(template, data),
         detail   |-> [tag |-> template.xml_element,
                       children |-> {[tag |-> f, text |-> data[f]] :
                                        f \in {g \in DOMAIN data : data[g] # ""}}]])

\* The first element of the pair returned for an unknown report type.
NoXml == [type |-> None]

\* "{report_type}_{timestamp}.xml": the timestamp has the resolution of a second.
FileName(rt, now) == rt \o "_" \o NatToStr(now) \o ".xml"

GenerateReportTypes == {"SITREP", "MEDEVAC", "CONTACTREP", "LOGREP"}
GenerateChoices ==
    [reporting_unit : {Absent, "", "WARHAWK 2-1"},
     unit           : {Absent, "Bravo"},
     location       : {Absent, "35VNF61105197", "Grid TBD"},
     situation      : {Absent, "All quiet"}]

InitGenerate ==
    /\ pc = "start"
    /\ report_type \in GenerateReportTypes
    /\ report_data \in {Present(r) : r \in GenerateChoices}
    /\ reporting_unit \in UnitOverrides
    /\ clock = 0
    /\ event = None
    /\ files = EmptyMap
    /\ generated = None
    /\ IdleMerge /\ IdleValidate /\ IdleClassify /\ IdleResolve /\ IdleSend /\ IdleExtract
    /\ IdleProcess /\ IdleNormalize /\ IdleGrid
    /\ IdlePair
    /\ IdleCompare
    /\ IdleRevalidate
    /\ IdleSerializer

\* generate_cot_xml(report_type, report_data, reporting_unit): the clock is
\* read once; the write to the import directory succeeds or fails.
generate_cot_xml ==
    /\ pc = "start"
    /\ pc' = "generated"
    /\ \E d \in 0..MaxElapsed : clock' = clock + d
    /\ IF report_type \notin Range(load_report_templates)
       THEN /\ generated' = [xml_string |-> NoXml, file_path |-> None]
            /\ files' = files
       ELSE \E uuid \in Uuids, written \in BOOLEAN :
            \E xml \in {GeneratedEvent(report_type, report_data, reporting_unit, uuid, clock)} :
                /\ generated' = [xml_string |-> xml,
                                 file_path |-> IF written THEN FileName(report_type, clock)
                                                          ELSE None]
                /\ files' = IF written THEN Put(files, FileName(report_type, clock), xml)
                                       ELSE files
    /\ UNCHANGED <<report_type, report_data, reporting_unit, event, mergeVars,
                   validateVars, classifyVars, resolveVars, sendVars, extractVars,
                   processVars, normalizeVars, gridVars, pairVars, compareVars,
                   revalidateVars, serializerVars>>

NextGenerate == generate_cot_xml
SpecGenerate == InitGenerate /\ [][NextGenerate]_vars

\* C12: encoding a report whose type is not recognized still produces an
\* event, and its type attribute is the default friendly code a-f-G-U-C,
\* both from create_cot_event and from generate_cot_xml.
C12_UnknownTypeDefault ==
    (pc = "generated" /\ report_type \notin Range(load_report_templates)) =>
        generated.xml_string.type = "a-f-G-U-C"

\* The create_cot_event half of C12.
C12_CreateDefault ==
    (pc = "encoded" /\ report_type \notin Range(load_report_templates)) =>
        event.type = "a-f-G-U-C"

(***************************************************************************)
(* The transport senders: send_cot_direct, send_cot_pytak                  *)
(* (pytak_sender.py) and send_cot_tcp, send_cot_udp (reports.py).          *)
(*                                                                         *)
(* A sender is a sequence of steps.  No sender sets a timeout on its       *)
(* socket, so connect and sendall are blocking calls that end when the     *)
(* network lets them end: each has one action for the call completing and  *)
(* one for the call raising, and these are steps of the environment.  The  *)
(* same holds for the connection setup of the CLITool.                     *)
(***************************************************************************)
UrlSenders  == {"send_cot_direct", "send_cot_pytak"}
FileSenders == {"send_cot_tcp", "send_cot_udp"}
WithSenders == {"send_cot_direct"}     \* the senders that open the socket in a with block

SendReportTypes == {"SITREP", "MEDEVAC"}
SendChoices ==
    [reporting_unit : {Absent, "WARHAWK 2-1"},
     location       : {Absent, "35VNF61105197"}]
TakSchemes == {"tcp", "udp", "http"}
StoredFile == "SITREP_0.xml"
FilePaths == {None, "", StoredFile, "SITREP_9.xml"}
\* Before a sender has built or read its payload.
NoPayload == [type |-> None]

InitSend ==
    /\ pc = "start"
    /\ sender \in UrlSenders \cup FileSenders
    /\ report_data \in {Present(r) : r \in SendChoices}
    /\ IF sender \in UrlSenders
       THEN /\ tak_scheme \in TakSchemes
            /\ report_type \in SendReportTypes
            /\ xml_file_path = None
            /\ files = EmptyMap
       ELSE /\ tak_scheme = None
            /\ report_type = "SITREP"
            /\ xml_file_path \in FilePaths
            /\ \E uuid \in Uuids :
                 files = Put(EmptyMap, StoredFile,
                             GeneratedEvent(report_type, report_data, None, uuid, 0))
    /\ reporting_unit = None /\ clock = 0 /\ event = NoPayload /\ generated = None
    /\ xml_data = NoPayload /\ sock = "none" /\ tx_queue = <<>> /\ wire = <<>>
    /\ send_result = None
    /\ IdleMerge /\ IdleValidate /\ IdleClassify /\ IdleResolve /\ IdleExtract /\ IdleProcess
    /\ IdleNormalize /\ IdleGrid
    /\ IdlePair
    /\ IdleCompare
    /\ IdleRevalidate
    /\ IdleSerializer

\* What every step of a sender leaves alone.
SendFrame ==
    UNCHANGED <<sender, tak_scheme, xml_file_path, files, generated, report_type,
                report_data, reporting_unit, mergeVars, validateVars, classifyVars,
                resolveVars, extractVars, processVars, normalizeVars, gridVars, pairVars,
                compareVars, revalidateVars, serializerVars>>

Return(value) == pc' = "returned" /\ send_result' = value

\* send_cot_direct, lines 114-140: parse the URL, build the event, open the
\* socket for the scheme; an unsupported scheme returns False.
DirectStart ==
    /\ pc = "start" /\ sender = "send_cot_direct"
    /\ \E uuid \in Uuids :
       \E content \in {EventContent(report_type, report_data, None, uuid)} :
       \E d1, d2 \in 0..MaxElapsed :
            /\ event' = Timestamped(content, clock, clock + d1, clock + d1 + d2)
            /\ clock' = clock + d1 + d2
    /\ xml_data' = event'
    /\ IF tak_scheme = "tcp" THEN pc' = "connect" /\ sock' = "open" /\ send_result' = send_result
       ELSE IF tak_scheme = "udp" THEN pc' = "sendto" /\ sock' = "open" /\ send_result' = send_result
       ELSE Return("False") /\ sock' = sock
    /\ UNCHANGED <<tx_queue, wire>>
    /\ SendFrame

\* send_cot_tcp / send_cot_udp: the check of the path (reports.py 246-248).
CheckPath ==
    /\ pc = "start" /\ sender \in FileSenders
    /\ IF xml_file_path = None \/ xml_file_path = "" \/ xml_file_path \notin DOMAIN files
       THEN Return("False")
       ELSE pc' = "read" /\ send_result' = send_result
    /\ UNCHANGED <<xml_data, sock, tx_queue, wire, clock, event>>
    /\ SendFrame

\* xml_to_string (reports.py 297-305), called outside the try block: the
\* file is read, or open / read raises and the exception reaches the caller.
ReadPayload ==
    /\ pc = "read"
    /\ \E readable \in BOOLEAN :
         IF readable /\ xml_file_path \in DOMAIN files
         THEN pc' = "open" /\ xml_data' = files[xml_file_path] /\ send_result' = send_result
         ELSE pc' = "raised" /\ xml_data' = xml_data /\ send_result' = "raised"
    /\ UNCHANGED <<sock, tx_queue, wire, clock, event>>
    /\ SendFrame

\* socket.socket(...) of the file senders.
OpenSocket ==
    /\ pc = "open"
    /\ sock' = "open"
    /\ pc' = IF sender = "send_cot_tcp" THEN "connect" ELSE "sendto"
    /\ UNCHANGED <<xml_data, tx_queue, wire, send_result, clock, event>>
    /\ SendFrame

\* The socket after an exception: the with block of send_cot_direct closes
\* it; send_cot_tcp and send_cot_udp skip their sock.close() (reports.py 261
\* and 289), so the function returns with the socket as it was.  Nothing
\* but the interpreter can close it then: a reference-counting interpreter
\* finalises the object while the frame is released ("ResourceWarning:
\* unclosed socket"), any other collector at some later time.
AfterException(s) == IF sender \in WithSenders THEN {"closed"} ELSE {s, "closed"}

\* sock.connect returns: the endpoint accepted the connection.
ConnectCompletes ==
    /\ pc = "connect"
    /\ pc' = "sendall" /\ sock' = "connected"
    /\ UNCHANGED <<xml_data, tx_queue, wire, send_result, clock, event>>
    /\ SendFrame

\* sock.connect raises (refused, unreachable, name not resolved).
ConnectFails ==
    /\ pc = "connect"
    /\ Return("False") /\ sock' \in AfterException(sock)
    /\ UNCHANGED <<xml_data, tx_queue, wire, clock, event>>
    /\ SendFrame

\* sock.sendall returns: the whole payload is with the OS.
SendallCompletes ==
    /\ pc = "sendall"
    /\ wire' = Append(wire, xml_data)
    /\ Return("True") /\ sock' = "closed"
    /\ UNCHANGED <<xml_data, tx_queue, clock, event>>
    /\ SendFrame

\* sock.sendall raises (connection reset).
SendallFails ==
    /\ pc = "sendall"
    /\ Return("False") /\ sock' \in AfterException(sock)
    /\ UNCHANGED <<xml_data, tx_queue, wire, clock, event>>
    /\ SendFrame

\* sock.sendto: the datagram is handed over, or the call raises.
Sendto ==
    /\ pc = "sendto"
    /\ \E handed \in BOOLEAN :
         IF handed
         THEN wire' = Append(wire, xml_data) /\ Return("True") /\ sock' = "closed"
         ELSE wire' = wire /\ Return("False") /\ sock' \in AfterException(sock)
    /\ UNCHANGED <<xml_data, tx_queue, clock, event>>
    /\ SendFrame

\* send_cot_pytak, lines 54-61: the configuration and the CLITool.
PytakStart ==
    /\ pc = "start" /\ sender = "send_cot_pytak"
    /\ pc' = "setup"
    /\ UNCHANGED <<xml_data, sock, tx_queue, wire, send_result, clock, event>>
    /\ SendFrame

\* await clitool.setup() returns: the connection to tak_url is made.
SetupCompletes ==
    /\ pc = "setup"
    /\ pc' = "run" /\ sock' = "connected"
    /\ UNCHANGED <<xml_data, tx_queue, wire, send_result, clock, event>>
    /\ SendFrame

\* await clitool.setup() raises.
SetupFails ==
    /\ pc = "setup"
    /\ Return("False")
    /\ UNCHANGED <<xml_data, sock, tx_queue, wire, clock, event>>
    /\ SendFrame

\* asyncio.wait_for(serializer.run(), timeout=10.0): the serializer builds
\* the event and puts it on the transmit queue, or the ten seconds pass.
RunSerializer ==
    /\ pc = "run"
    /\ \E timed_out \in BOOLEAN :
         IF timed_out
         THEN /\ Return("False")
              /\ UNCHANGED <<xml_data, tx_queue, clock, event>>
         ELSE /\ \E uuid \in Uuids :
                 \E content \in {EventContent(report_type, report_data, None, uuid)} :
                 \E d1, d2 \in 0..MaxElapsed :
                    /\ event' = Timestamped(content, clock, clock + d1, clock + d1 + d2)
                    /\ clock' = clock + d1 + d2
              /\ xml_data' = event'
              /\ tx_queue' = Append(tx_queue, event')
              /\ pc' = "sleep" /\ send_result' = send_result
    /\ UNCHANGED <<sock, wire>>
    /\ SendFrame

\* await asyncio.sleep(1); return True.  Nothing ran the tasks of the
\* CLITool, so the transmit queue is as the serializer left it.
SleepReturn ==
    /\ pc = "sleep"
    /\ Return("True")
    /\ UNCHANGED <<xml_data, sock, tx_queue, wire, clock, event>>
    /\ SendFrame

NextSend ==
    \/ DirectStart \/ CheckPath \/ ReadPayload \/ OpenSocket
    \/ ConnectCompletes \/ ConnectFails \/ SendallCompletes \/ SendallFails
    \/ Sendto \/ PytakStart \/ SetupCompletes \/ SetupFails
    \/ RunSerializer \/ SleepReturn
SpecSend == InitSend /\ [][NextSend]_vars

\* A sender's positions, and the ones it leaves by a step of its own; at
\* "connect", "sendall" and "setup" it waits for the network, and nothing in
\* the code bounds that wait (no settimeout, no wait_for around setup).
Positions == {"start", "read", "open", "connect", "sendall", "sendto", "setup", "run",
              "sleep", "returned", "raised"}
OwnPositions == {"start", "read", "open", "sendto", "run", "sleep"}
Moves(position) == pc = position /\ pc' \in Positions \ {position}

\* The steps a sender takes by itself are taken.
SpecSendFair ==
    /\ SpecSend
    /\ \A position \in OwnPositions : WF_pc(Moves(position))

\* C13: no transport sender raises to its caller: every failure to resolve,
\* connect or send, and an unreadable payload, gives a False return, and
\* True is returned by a socket sender only when the payload went out.
C13_NeverRaises ==
    /\ pc # "raised"
    /\ send_result # "raised"
    /\ (send_result = "True" /\ sender # "send_cot_pytak") => Len(wire) = 1

\* C14: every call of send_cot_direct and of send_cot_pytak eventually
\* returns true or false, whatever the endpoint does.
C14_EventuallyReturns ==
    (sender \in UrlSenders) => <>(pc = "returned")

(***************************************************************************)
(* The rule layer: extract_fields_with_fallback (military_nlp.py 712-855)  *)
(*                                                                         *)
(* Every pattern is searched in the transcript itself with re.IGNORECASE.  *)
(* A match is the pair <<from, to>> of its group 1 (to is the position     *)
(* after the group) and <<>> stands for "no match".                        *)
(***************************************************************************)
\* re.search: the match at the leftmost position at which M gives one
Search(s, M(_, _)) ==
    With({i \in 1..Len(s) : M(s, i) # <<>>}, LAMBDA hits :
        IF hits = {} THEN <<>> ELSE M(s, MinOf(hits)))
Group(s, m) == SubSeq(s, m[1], m[2] - 1)
\* a match from g to e, when the end e was found
Matched(g, e) == IF e = 0 THEN <<>> ELSE <<g, e>>

\* one of the literals of words at i, ignoring case
AnyWordAt(s, i, words) == \E k \in 1..Len(words) : WordAt(s, i, words[k])
\* (?:w1|w2|...) at i with white space after it: the position after the literal
LeadWordEnd(s, i, words) ==
    With({i + Len(words[k]) :
            k \in {k \in 1..Len(words) :
                      WordAt(s, i, words[k]) /\ Is(s, i + Len(words[k]), IsSpace)}},
         LAMBDA ends : IF ends = {} THEN 0 ELSE MinOf(ends))
\* (?:w1|w2|...)\s+ at i: the position after the white space
LeadEnd(s, i, words) ==
    With(LeadWordEnd(s, i, words), LAMBDA a : IF a = 0 THEN 0 ELSE SkipSpaces(s, a))

IsDashSep(c) == IsSpace(c) \/ c = "-"
IsAlnum(c) == IsAlpha(c) \/ IsDigit(c)
IsDigitSep(c) == IsDigit(c) \/ IsSep(c)
IsLetterSep(c) == IsAlpha(c) \/ IsSep(c)
IsGridChar(c) == IsAlnum(c) \/ IsSep(c)
IsFreqChar(c) == IsDigit(c) \/ IsSep(c) \/ c = "."

\* [A-Z][a-z]+ X+ \d+ X+ \d+ at i, for the separator class X
CallsignEnd(s, i, X(_)) ==
    With(LettersEnd(s, i), LAMBDA a : IF a - i < 2 THEN 0 ELSE
    With(RunEnd(s, a, X), LAMBDA b : IF b = a THEN 0 ELSE
    With(DigitsEnd(s, b), LAMBDA c : IF c = b THEN 0 ELSE
    With(RunEnd(s, c, X), LAMBDA d : IF d = c THEN 0 ELSE
    With(DigitsEnd(s, d), LAMBDA e : IF e = d THEN 0 ELSE e)))))

callsign_leads == <<"this is", "i'm", "we're">>
callsign_words == <<"callsign", "call sign">>
SpokenCallsignAt(s, i) ==
    With(LeadEnd(s, i, callsign_leads), LAMBDA g :
        IF g = 0 THEN <<>> ELSE Matched(g, CallsignEnd(s, g, IsSep)))
NamedCallsignAt(s, i) ==
    With(LeadEnd(s, i, callsign_words), LAMBDA g :
        IF g = 0 THEN <<>> ELSE Matched(g, CallsignEnd(s, g, IsDashSep)))
LeadingCallsignAt(s, i) ==
    IF i # 1 THEN <<>> ELSE Matched(1, CallsignEnd(s, 1, IsSep))

\* the first of the patterns, in the order of the list, that matches
FirstOf3(m1, m2, m3) == IF m1 # <<>> THEN m1 ELSE IF m2 # <<>> THEN m2 ELSE m3

RECURSIVE CollapseSeps(_, _)
\* re.sub(r'[,\s]+', ' ', s), from position i on
CollapseSeps(s, i) ==
    IF i > Len(s) THEN ""
    ELSE IF Is(s, i, IsSep) THEN " " \o CollapseSeps(s, RunEnd(s, i, IsSep))
    ELSE CharAt(s, i) \o CollapseSeps(s, i + 1)

\* lines 722-737
RuleCallsign(t, sofar) ==
    With(FirstOf3(Search(t, SpokenCallsignAt), Search(t, NamedCallsignAt),
                  Search(t, LeadingCallsignAt)), LAMBDA m :
        IF m = <<>> THEN sofar
        ELSE Put(sofar, "reporting_unit",
                 Upper(Strip(CollapseSeps(Strip(Group(t, m)), 1)))))

\* [\d\s,]+[A-Za-z\s,]+[\d\s,]+ from g: the runs are greedy, and a run gives
\* characters back as long as the runs after it cannot match.
LetterRunStops(s, e1) ==
    {e2 \in (e1 + 1)..RunEnd(s, e1, IsLetterSep) : Is(s, e2, IsDigitSep)}
ThreeRunEnd(s, g) ==
    With({e1 \in (g + 1)..RunEnd(s, g, IsDigitSep) : LetterRunStops(s, e1) # {}},
         LAMBDA stops :
            IF stops = {} THEN 0
            ELSE RunEnd(s, MaxOf(LetterRunStops(s, MaxOf(stops))), IsDigitSep))

\* grid\s+(...) for the mixed format: \s+ is greedy too
MixedGridAt(s, i) ==
    IF ~WordAt(s, i, "grid") THEN <<>>
    ELSE With({g \in (i + 5)..SkipSpaces(s, i + 4) : ThreeRunEnd(s, g) # 0}, LAMBDA starts :
            IF starts = {} THEN <<>>
            ELSE <<MaxOf(starts), ThreeRunEnd(s, MaxOf(starts))>>)

\* grid\s+([0-9A-Z]+)
PlainGridAt(s, i) ==
    IF ~(WordAt(s, i, "grid") /\ Is(s, i + 4, IsSpace)) THEN <<>>
    ELSE With(SkipSpaces(s, i + 4), LAMBDA g :
            IF Is(s, g, IsAlnum) THEN <<g, RunEnd(s, g, IsAlnum)>> ELSE <<>>)

\* a class that holds \s after \s+: the group starts after the white space,
\* or on its last character when the character after it is not of the class
GroupAfterSpaces(s, from, C(_)) ==
    With(SkipSpaces(s, from), LAMBDA g :
        IF g = from THEN <<>>
        ELSE IF Is(s, g, C) THEN <<g, RunEnd(s, g, C)>>
        ELSE IF g - from >= 2 THEN <<g - 1, g>>
        ELSE <<>>)

grid_leads == <<"location", "position", "at">>
\* (?:location|position|at)\s+grid\s+([\d\sA-Za-z,]+)
LocatedGridAt(s, i) ==
    With(LeadEnd(s, i, grid_leads), LAMBDA p :
        IF p = 0 \/ ~WordAt(s, p, "grid") THEN <<>>
        ELSE GroupAfterSpaces(s, p + 4, IsGridChar))

HasLetterPair(s) ==
    \E i \in 1..(Len(s) - 1) : IsAlpha(CharAt(s, i)) /\ IsAlpha(CharAt(s, i + 1))

\* lines 739-756
RuleGrid(t, sofar) ==
    With(FirstOf3(Search(t, MixedGridAt), Search(t, PlainGridAt), Search(t, LocatedGridAt)),
         LAMBDA m :
            IF m = <<>> THEN sofar
            ELSE With(Group(t, m), LAMBDA grid_text :
                    Put(sofar, "location",
                        IF Contains(grid_text, ",") \/ HasLetterPair(grid_text)
                        THEN process_grid_sequence(grid_text)
                        ELSE RemoveSpaces(Upper(grid_text)))))

freq_leads  == <<"freq", "frequency">>
radio_leads == <<"radio", "channel">>
mhz_words   == <<"mhz", "megahertz">>
\* (?:freq|frequency)\s+([\d\s,\.]+)
FreqWordAt(s, i) ==
    With(LeadWordEnd(s, i, freq_leads), LAMBDA a :
        IF a = 0 THEN <<>> ELSE GroupAfterSpaces(s, a, IsFreqChar))
\* (?:radio|channel)\s+([\d\s,\.]+)
RadioWordAt(s, i) ==
    With(LeadWordEnd(s, i, radio_leads), LAMBDA a :
        IF a = 0 THEN <<>> ELSE GroupAfterSpaces(s, a, IsFreqChar))
\* \s+(?:MHz|megahertz) at e
MhzAt(s, e) ==
    With(SkipSpaces(s, e), LAMBDA q : q > e /\ AnyWordAt(s, q, mhz_words))
MhzGroupEnds(s, g) == {e \in (g + 1)..RunEnd(s, g, IsFreqChar) : MhzAt(s, e)}
\* (?:on)\s+([\d\s,\.]+)\s+(?:MHz|megahertz)
OnMhzAt(s, i) ==
    IF ~(WordAt(s, i, "on") /\ Is(s, i + 2, IsSpace)) THEN <<>>
    ELSE With({g \in (i + 3)..SkipSpaces(s, i + 2) : MhzGroupEnds(s, g) # {}}, LAMBDA starts :
            IF starts = {} THEN <<>>
            ELSE <<MaxOf(starts), MaxOf(MhzGroupEnds(s, MaxOf(starts)))>>)

IndexOfFirst(s, c) ==
    With({i \in 1..Len(s) : CharAt(s, i) = c}, LAMBDA found :
        IF found = {} THEN 0 ELSE MinOf(found))
RECURSIVE JoinStripped(_)
\* ''.join(p.strip() for p in s.split(','))
JoinStripped(s) ==
    With(IndexOfFirst(s, ","), LAMBDA c :
        IF c = 0 THEN Strip(s)
        ELSE Strip(SubSeq(s, 1, c - 1)) \o JoinStripped(SubSeq(s, c + 1, Len(s))))
AfterLast(s, c) == SubSeq(s, LastIndexOf(s, c) + 1, Len(s))
BeforeLast(s, c) == SubSeq(s, 1, LastIndexOf(s, c) - 1)

\* lines 768-781
CleanFrequency(freq_text) ==
    IF Contains(freq_text, ",")
    THEN IF Contains(AfterLast(freq_text, ","), ".")
         THEN JoinStripped(BeforeLast(freq_text, ",")) \o "."
                \o AfterLast(Strip(AfterLast(freq_text, ",")), ".")
         ELSE JoinStripped(freq_text)
    ELSE Strip(freq_text)

\* lines 758-782
RuleFrequency(t, sofar) ==
    With(FirstOf3(Search(t, FreqWordAt), Search(t, RadioWordAt), Search(t, OnMhzAt)),
         LAMBDA m :
            IF m = <<>> THEN sofar
            ELSE Put(sofar, "frequency", CleanFrequency(Group(t, m))))

patient_words   == <<"casualties", "casualty", "patient", "wounded">>
have_leads      == <<"have", "got">>
down_words      == <<"down", "injured", "hurt">>
walk_words      == <<"can walk", "walking", "ambulatory">>
\* (\d+)\s+ at i: the position after the white space, 0 when there is no match
CountEnd(s, i) ==
    With(DigitsEnd(s, i), LAMBDA e :
        IF e = i \/ ~Is(s, e, IsSpace) THEN 0 ELSE SkipSpaces(s, e))
\* (\d+)\s+(?:w1|w2|...)
CountBefore(s, i, words) ==
    With(CountEnd(s, i), LAMBDA q :
        IF q # 0 /\ AnyWordAt(s, q, words) THEN <<i, DigitsEnd(s, i)>> ELSE <<>>)
PatientCountAt(s, i) == CountBefore(s, i, patient_words)
\* (?:have|got)\s+(\d+)\s+(?:down|injured|hurt)
DownCountAt(s, i) ==
    With(LeadEnd(s, i, have_leads), LAMBDA a :
        IF a = 0 THEN <<>> ELSE CountBefore(s, a, down_words))
\* (\d+)\s+urgent\s+surgical
UrgentCountAt(s, i) ==
    With(CountEnd(s, i), LAMBDA q :
        IF q # 0 /\ WordAt(s, q, "urgent") /\ Is(s, q + 6, IsSpace)
                 /\ WordAt(s, SkipSpaces(s, q + 6), "surgical")
        THEN <<i, DigitsEnd(s, i)>> ELSE <<>>)
AmbulatoryCountAt(s, i) == CountBefore(s, i, walk_words)

\* lines 784-795
RulePatients(t, sofar) ==
    With(FirstOf3(Search(t, PatientCountAt), Search(t, DownCountAt), Search(t, UrgentCountAt)),
         LAMBDA m :
            IF m = <<>> THEN sofar ELSE Put(sofar, "number_patients", Group(t, m)))

\* lines 797-801
RulePrecedence(t, sofar) ==
    IF ~Contains(Lower(t), "urgent surgical") THEN sofar
    ELSE With(Search(t, UrgentCountAt), LAMBDA m :
            IF m = <<>> THEN sofar
            ELSE Put(sofar, "patient_precedence", Group(t, m) \o " urgent surgical"))

\* lines 803-811: the litter count is the difference, whatever its sign
RuleLitter(t, sofar) ==
    With(Search(t, AmbulatoryCountAt), LAMBDA m :
        IF m = <<>> THEN sofar
        ELSE IF ~Has(sofar, "number_patients")
        THEN Put(sofar, "number_ambulatory", Group(t, m))
        ELSE Put(Put(sofar, "number_ambulatory", Group(t, m)), "number_litter",
                 IntToStr(DigitsValue(sofar["number_patients"]) - DigitsValue(Group(t, m)))))

\* str.capitalize()
Capitalize(s) == IF s = "" THEN "" ELSE UpperChar(CharAt(s, 1)) \o Lower(Rest(s))
AnyKeyword(lowered, keywords) == \E k \in 1..Len(keywords) : Contains(lowered, keywords[k])

equipment_keywords ==
    << [equip |-> "ventilator", keywords |-> <<"ventilator", "vent", "breathing support">>],
       [equip |-> "hoist",      keywords |-> <<"hoist", "winch", "cable">>],
       [equip |-> "extraction", keywords |-> <<"extraction equipment", "extraction">>] >>

RECURSIVE EquipmentFound(_, _)
\* ', '.join(equipment_found), over the entries from k on
EquipmentFound(lowered, k) ==
    IF k > Len(equipment_keywords) THEN ""
    ELSE With(EquipmentFound(lowered, k + 1), LAMBDA rest :
            IF ~AnyKeyword(lowered, equipment_keywords[k].keywords) THEN rest
            ELSE Capitalize(equipment_keywords[k].equip)
                    \o (IF rest = "" THEN "" ELSE ", " \o rest))

\* lines 813-826
RuleEquipment(t, sofar) ==
    With(EquipmentFound(Lower(t), 1), LAMBDA found :
        IF found = "" THEN sofar ELSE Put(sofar, "special_equipment", found))

mark_leads  == <<"mark", "marking", "marked with">>
pop_leads   == <<"pop", "throw", "use">>
when_words  == <<"when", "on">>
\* (\w+)\s+smoke at g: the position after "smoke", 0 when there is no match
SmokeEnd(s, g) ==
    With(RunEnd(s, g, IsWordChar), LAMBDA e :
        IF e = g \/ ~Is(s, e, IsSpace) \/ ~WordAt(s, SkipSpaces(s, e), "smoke") THEN 0
        ELSE SkipSpaces(s, e) + 5)
\* (?:w1|w2|...)\s+(\w+)\s+smoke
LedSmokeAt(s, i, leads) ==
    With(LeadEnd(s, i, leads), LAMBDA g :
        IF g = 0 \/ SmokeEnd(s, g) = 0 THEN <<>> ELSE <<g, RunEnd(s, g, IsWordChar)>>)
MarkSmokeAt(s, i) == LedSmokeAt(s, i, mark_leads)
PopSmokeAt(s, i) == LedSmokeAt(s, i, pop_leads)
\* (\w+)\s+smoke\s+(?:when|on)
SmokeWhenAt(s, i) ==
    With(SmokeEnd(s, i), LAMBDA q :
        IF q # 0 /\ Is(s, q, IsSpace) /\ AnyWordAt(s, SkipSpaces(s, q), when_words)
        THEN <<i, RunEnd(s, i, IsWordChar)>> ELSE <<>>)

\* lines 828-840
RuleMarking(t, sofar) ==
    With(FirstOf3(Search(t, MarkSmokeAt), Search(t, SmokeWhenAt), Search(t, PopSmokeAt)),
         LAMBDA m :
            IF m = <<>> THEN sofar
            ELSE Put(sofar, "method_of_marking", Capitalize(Group(t, m)) \o " smoke"))

security_keywords ==
    << [code |-> "N", keywords |-> <<"no enemy", "cold", "secure", "clear">>],
       [code |-> "P", keywords |-> <<"possible enemy", "unknown", "not sure">>],
       [code |-> "E", keywords |-> <<"enemy", "hot", "troops", "contact">>],
       [code |-> "X", keywords |-> <<"heavy", "need escort", "under fire">>] >>

\* mutant: the loop does not stop at the first code that matches
RuleSecurity_lastcode(t, sofar) ==
    With({k \in 1..Len(security_keywords) :
            AnyKeyword(Lower(t), security_keywords[k].keywords)}, LAMBDA hits :
        IF hits = {} THEN sofar
        ELSE Put(sofar, "security_at_pickup", security_keywords[MaxOf(hits)].code))

\* lines 842-853: the first code, in the order of the table, one of whose
\* keywords occurs in the lower-cased transcript
RuleSecurity(t, sofar) ==
    With({k \in 1..Len(security_keywords) :
            AnyKeyword(Lower(t), security_keywords[k].keywords)}, LAMBDA hits :
        IF hits = {} THEN sofar
        ELSE Put(sofar, "security_at_pickup", security_keywords[MinOf(hits)].code))

\* extract_fields_with_fallback(transcript, report_type): the report type is
\* not used, and neither is the preprocessed transcript of line 720.
extract_fields_with_fallback(t) ==
    RuleSecurity(t, RuleMarking(t, RuleEquipment(t, RuleLitter(t, RulePrecedence(t,
        RulePatients(t, RuleFrequency(t, RuleGrid(t, RuleCallsign(t, EmptyMap)))))))))

\* The transcripts of the specification: a patient count, a walking count
\* and a security remark, each of which may be missing.
TotalPhrases    == {"", "1 wounded", "2 casualties", "3 patients", "have 2 down"}
WalkingPhrases  == {"", "1 walking", "3 can walk", "2 ambulatory"}
SecurityPhrases == {"", "LZ is cold", "possible enemy", "enemy contact", "under fire",
                    "hot and heavy", "unknown, but the road is clear", "no enemy"}
RuleTranscripts ==
    {JoinPhrases(<<a, b, c>>) : a \in TotalPhrases, b \in WalkingPhrases, c \in SecurityPhrases}

InitExtract ==
    /\ pc = "start"
    /\ report_type = "MEDEVAC"
    /\ transcript \in RuleTranscripts
    /\ report_templates = <<>> /\ classification = None
    /\ rule_fields = EmptyMap
    /\ IdleMerge /\ IdleValidate /\ IdleEncode /\ IdleResolve /\ IdleGenerate /\ IdleSend
    /\ IdleProcess /\ IdleNormalize /\ IdleGrid
    /\ IdlePair
    /\ IdleCompare
    /\ IdleRevalidate
    /\ IdleSerializer

Extract ==
    /\ pc = "start"
    /\ rule_fields' = extract_fields_with_fallback(transcript)
    /\ pc' = "extracted"
    /\ UNCHANGED <<transcript, report_templates, classification, report_type, mergeVars,
                   validateVars, encodeVars, resolveVars, generateVars, sendVars,
                   processVars, normalizeVars, gridVars, pairVars, compareVars,
                   revalidateVars, serializerVars>>

NextExtract == Extract
SpecExtract == InitExtract /\ [][NextExtract]_vars

\* C15: the litter count the rule layer emits is never negative: it is the
\* total minus the ambulatory count when that is at least 0, and the field
\* is left out otherwise.
C15_LitterNotNegative ==
    (pc = "extracted" /\ Has(rule_fields, "number_litter")) =>
        CharAt(rule_fields["number_litter"], 1) # "-"

\* The codes of the security table one of whose keywords occurs in text.
CodesOccurring(text) ==
    {k \in 1..Len(security_keywords) :
        \E j \in 1..Len(security_keywords[k].keywords) :
            Contains(Lower(text), security_keywords[k].keywords[j])}

IsCallsignChar(c) == IsAlnum(c) \/ c = "-" \/ IsSpace(c)

\* lead ([A-Z][A-Z0-9\-\s]+?)(?:,|\.|$) at i: the lazy group runs to the
\* first character that is not of its class, which has to be a comma, a full
\* stop or the end of the text
EndedCallsignAt(s, i, lead) ==
    IF ~WordAt(s, i, lead) \/ ~Is(s, i + Len(lead), IsAlpha) THEN <<>>
    ELSE With(RunEnd(s, i + Len(lead) + 1, IsCallsignChar), LAMBDA r :
            IF r > i + Len(lead) + 1 /\ (r = Len(s) + 1 \/ At(s, r, ",") \/ At(s, r, "."))
            THEN <<i + Len(lead), r>> ELSE <<>>)
ThisIsCallsignAt(s, i)   == EndedCallsignAt(s, i, "this is ")
FromCallsignAt(s, i)     == EndedCallsignAt(s, i, "from ")
CallsignWordAt(s, i)     == EndedCallsignAt(s, i, "callsign ")

\* ([A-Z][A-Z0-9\-\s]+?)tail at i: the lazy group ends at the first tail
\* that the class reaches
TailedCallsignAt(s, i, tail) ==
    IF ~Is(s, i, IsAlpha) THEN <<>>
    ELSE With({e \in (i + 2)..RunEnd(s, i + 1, IsCallsignChar) : WordAt(s, e, tail)},
              LAMBDA ends : IF ends = {} THEN <<>> ELSE <<i, MinOf(ends)>>)
CallingCallsignAt(s, i)  == TailedCallsignAt(s, i, " calling")
CallsignToAt(s, i)       == IF i # 1 THEN <<>> ELSE TailedCallsignAt(s, 1, " to")

\* the candidates of the five patterns, in the order of the list
CallsignCandidates(s) ==
    <<Search(s, ThisIsCallsignAt), Search(s, CallingCallsignAt), Search(s, FromCallsignAt),
      Search(s, CallsignWordAt), Search(s, CallsignToAt)>>

\* extract_callsign_from_transcript: the first candidate that is longer than
\* two characters after strip() (it begins with a letter, so isdigit() is
\* false); None when there is none
extract_callsign_from_transcript(text) ==
    With(Upper(text), LAMBDA transcript_upper :
    With(CallsignCandidates(transcript_upper), LAMBDA ms :
    With({k \in 1..Len(ms) : ms[k] # <<>> /\ Len(Strip(Group(transcript_upper, ms[k]))) > 2},
         LAMBDA good :
            IF good = {} THEN None
            ELSE Strip(Group(transcript_upper, ms[MinOf(good)])))))

filler_words == <<"i think", "maybe", "actually", "wait", "um", "uh", "like", "you know">>
need_words   == <<"might need", "probably need", "gonna need">>
no_gear      == "no special gear needed"

\* the positions from i on at which one of the literals of words begins
WordHits(s, i, words) == {h \in i..Len(s) : AnyWordAt(s, h, words)}
\* the length of the first literal of words, in the order of the list, at h
HitLength(s, h, words) == Len(words[MinOf({k \in 1..Len(words) : WordAt(s, h, words[k])})])

RECURSIVE RemoveWords(_, _, _)
\* re.sub(r"(?:w1|w2|...)", "", s, flags=re.IGNORECASE), from position i on
RemoveWords(s, i, words) ==
    With(WordHits(s, i, words), LAMBDA hits :
        IF hits = {} THEN SubSeq(s, i, Len(s))
        ELSE SubSeq(s, i, MinOf(hits) - 1)
                \o RemoveWords(s, MinOf(hits) + HitLength(s, MinOf(hits), words), words))

RECURSIVE RemoveNoGear(_, _)
\* re.sub(r"No special gear needed[,.]?\s*", "", s, flags=re.IGNORECASE)
RemoveNoGear(s, i) ==
    With(WordHits(s, i, <<no_gear>>), LAMBDA hits :
        IF hits = {} THEN SubSeq(s, i, Len(s))
        ELSE With(MinOf(hits) + Len(no_gear), LAMBDA a :
                SubSeq(s, i, MinOf(hits) - 1)
                    \o RemoveNoGear(s, SkipSpaces(s, IF At(s, a, ",") \/ At(s, a, ".")
                                                     THEN a + 1 ELSE a))))

\* lines 371-380
RemoveFillers(raw_value) ==
    RemoveNoGear(RemoveWords(RemoveWords(raw_value, 1, filler_words), 1, need_words), 1)

cleaned_equipment ==
    <<"ventilator", "hoist", "extraction equipment", "litter", "stretcher", "oxygen", "IV",
      "splint">>
RECURSIVE FoundEquipment(_, _)
\* ", ".join(found_equipment), over the keywords from k on
FoundEquipment(lowered, k) ==
    IF k > Len(cleaned_equipment) THEN ""
    ELSE With(FoundEquipment(lowered, k + 1), LAMBDA rest :
            IF ~Contains(lowered, Lower(cleaned_equipment[k])) THEN rest
            ELSE cleaned_equipment[k] \o (IF rest = "" THEN "" ELSE ", " \o rest))

\* [0-9]{4,10} at q: the position after the digits, 0 when there are fewer than four
MinGridDigits == 4
MaxGridDigits == 10
GridDigitsEnd(s, q) ==
    IF DigitsEnd(s, q) - q < MinGridDigits THEN 0
    ELSE Min(DigitsEnd(s, q), q + MaxGridDigits)
\* ([0-9]{2}[A-Z]{1,2}\s*[0-9]{4,10}) at i, case-sensitive: two letters are
\* tried before one
GridCoordinatesAt(s, i) ==
    IF ~(Is(s, i, IsDigit) /\ Is(s, i + 1, IsDigit) /\ Is(s, i + 2, IsUpper)) THEN <<>>
    ELSE IF Is(s, i + 3, IsUpper) /\ GridDigitsEnd(s, SkipSpaces(s, i + 4)) # 0
    THEN <<i, GridDigitsEnd(s, SkipSpaces(s, i + 4))>>
    ELSE Matched(i, GridDigitsEnd(s, SkipSpaces(s, i + 3)))

landmark_leads == <<"at", "near", "by">>
MoreWords == 3
RECURSIVE WordsEnd(_, _, _)
\* (?:\s+\w+){0,n} from e: the position after the last word taken
WordsEnd(s, e, n) ==
    IF n = 0 \/ ~Is(s, e, IsSpace) \/ ~Is(s, SkipSpaces(s, e), IsWordChar) THEN e
    ELSE WordsEnd(s, RunEnd(s, SkipSpaces(s, e), IsWordChar), n - 1)
\* (?:at|near|by)\s+(\w+(?:\s+\w+){0,3})
LandmarkAt(s, i) ==
    With(LeadEnd(s, i, landmark_leads), LAMBDA g :
        IF g = 0 \/ ~Is(s, g, IsWordChar) THEN <<>>
        ELSE <<g, WordsEnd(s, RunEnd(s, g, IsWordChar), MoreWords)>>)

\* (\d+)
DigitRunAt(s, i) == IF Is(s, i, IsDigit) THEN <<i, DigitsEnd(s, i)>> ELSE <<>>
number_words ==
    << <<"one", "1">>, <<"two", "2">>, <<"three", "3">>, <<"four", "4">>, <<"five", "5">>,
       <<"six", "6">>, <<"seven", "7">>, <<"eight", "8">>, <<"nine", "9">>, <<"ten", "10">> >>

SentenceLimit == 50
\* lines 420-424: the first sentence, cut after 50 characters
FirstSentence(cleaned) ==
    With(IndexOfFirst(cleaned, "."), LAMBDA dot :
    With(Strip(IF dot = 0 THEN cleaned ELSE SubSeq(cleaned, 1, dot - 1)), LAMBDA first_sentence :
        IF Len(first_sentence) > SentenceLimit
        THEN SubSeq(first_sentence, 1, SentenceLimit) \o "..."
        ELSE first_sentence))

\* lines 383-394
CleanEquipment(cleaned) ==
    With(FoundEquipment(Lower(cleaned), 1), LAMBDA found :
        IF found # "" THEN found
        ELSE IF Contains(Lower(cleaned), "none") \/ Contains(Lower(cleaned), "nothing")
        THEN "None"
        ELSE FirstSentence(cleaned))
\* lines 396-405
CleanLocation(cleaned) ==
    With(Search(cleaned, GridCoordinatesAt), LAMBDA grid_match :
        IF grid_match # <<>> THEN Group(cleaned, grid_match)
        ELSE With(Search(cleaned, LandmarkAt), LAMBDA location_match :
                IF location_match # <<>> THEN Group(cleaned, location_match)
                ELSE FirstSentence(cleaned)))
\* lines 407-418
CleanPatients(cleaned) ==
    With(Search(cleaned, DigitRunAt), LAMBDA digit_match :
        IF digit_match # <<>> THEN Group(cleaned, digit_match)
        ELSE With({k \in 1..Len(number_words) : Contains(Lower(cleaned), number_words[k][1])},
                  LAMBDA hits :
                    IF hits # {} THEN number_words[MinOf(hits)][2]
                    ELSE FirstSentence(cleaned)))

clean_field_value(field_type, raw_value) ==
    With(RemoveFillers(raw_value), LAMBDA cleaned :
        IF field_type \in {"special_equipment", "equipment_needed"} THEN CleanEquipment(cleaned)
        ELSE IF field_type \in {"location", "pickup_location", "grid"} THEN CleanLocation(cleaned)
        ELSE IF field_type = "number_patients" THEN CleanPatients(cleaned)
        ELSE FirstSentence(cleaned))

medevac_defaults ==
    [location            |-> "Grid TBD",
     frequency           |-> "Primary",
     number_patients     |-> "1",
     special_equipment   |-> "None",
     security_at_pickup  |-> "N",
     method_of_marking   |-> "Smoke",
     patient_nationality |-> "US Military",
     nbc_contamination   |-> "None"]

\* lines 677-681: the callsign found in the transcript is stored in the map
\* the caller passed in
BackfillCallsign(m, text) ==
    IF Has(m, "reporting_unit") /\ m["reporting_unit"] # "" THEN m
    ELSE With(extract_callsign_from_transcript(text), LAMBDA callsign :
            IF callsign = None \/ callsign = "" THEN m ELSE Put(m, "reporting_unit", callsign))

\* lines 683-689
CleanFields(m) ==
    [f \in DOMAIN m |-> IF m[f] # "" THEN clean_field_value(f, m[f]) ELSE ""]

\* lines 691-705
AddDefaults(rt, processed) ==
    IF rt # "MEDEVAC" THEN processed
    ELSE [f \in DOMAIN processed \cup DOMAIN medevac_defaults |->
            IF Has(processed, f) /\ processed[f] # "" THEN processed[f]
            ELSE IF Has(medevac_defaults, f) THEN medevac_defaults[f]
            ELSE processed[f]]

post_process_extracted_fields(rt, m, text) ==
    AddDefaults(rt, CleanFields(BackfillCallsign(m, text)))

(***************************************************************************)
(* The field pipeline: merge_extraction_results, then                      *)
(* validate_military_extraction on the merged map, then                    *)
(* post_process_extracted_fields on the validated map.                     *)
(***************************************************************************)
\* the map of a template with no value for any field
AllEmpty(rt) == [f \in TemplateFieldIds(rt) |-> ""]

PipelineTypes == {"MEDEVAC", "SITREP"}
PipelineAiChoices ==
    [reporting_unit  : {Absent, "", "WARHAWK 2-1"},
     location        : {Absent, "", "35VNF61105197"},
     frequency       : {Absent, "", "124.5"},
     number_patients : {Absent, "", "three"}]
PipelineRuleChoices ==
    [reporting_unit  : {Absent, "EAGLE 6"},
     number_patients : {Absent, "2"}]
PipelineTranscripts == {"", "this is Warhawk 2-1, requesting medevac"}

InitPipeline ==
    /\ pc = "start"
    /\ report_type \in PipelineTypes
    /\ ai_fields \in {Present(r) : r \in PipelineAiChoices} \cup {AllEmpty(report_type)}
    /\ fallback_fields \in {Present(r) : r \in PipelineRuleChoices}
    /\ merged = None
    /\ transcript \in PipelineTranscripts
    /\ report_templates = <<>> /\ classification = None
    /\ processed_fields = None
    /\ IdleValidate /\ IdleEncode /\ IdleResolve /\ IdleGenerate /\ IdleSend /\ IdleExtract
    /\ IdleNormalize /\ IdleGrid
    /\ IdlePair
    /\ IdleCompare
    /\ IdleRevalidate
    /\ IdleSerializer

\* validate_military_extraction(report_type, merged)
ValidateMerged ==
    /\ pc = "merged"
    /\ extracted_fields' = merged
    /\ validated' = validate_military_extraction(report_type, merged)
    /\ pc' = "validated"
    /\ UNCHANGED <<report_type, mergeVars, classifyVars, encodeVars, resolveVars,
                   extensionVars>>

\* post_process_extracted_fields(report_type, validated, transcript): the
\* callsign backfill writes into the map that was passed in.
PostProcess ==
    /\ pc = "validated"
    /\ validated' = BackfillCallsign(validated, transcript)
    /\ processed_fields' = post_process_extracted_fields(report_type, validated, transcript)
    /\ pc' = "processed"
    /\ UNCHANGED <<report_type, extracted_fields, mergeVars, classifyVars, encodeVars,
                   resolveVars, generateVars, sendVars, extractVars, normalizeVars, gridVars,
                   pairVars, compareVars, revalidateVars, serializerVars>>

NextPipeline == Merge \/ ValidateMerged \/ PostProcess
SpecPipeline == InitPipeline /\ [][NextPipeline]_vars

NoValues(m) == \A f \in DOMAIN m : m[f] = ""

\* C16: for a MEDEVAC report whose ML map and rule map hold no value and
\* whose transcript gives none, the map after merge, validation and
\* post-processing has the empty string for every field: no stage puts a
\* default value in.
C16_EmptyStaysEmpty ==
    (/\ pc = "processed" /\ report_type = "MEDEVAC"
     /\ NoValues(ai_fields) /\ NoValues(fallback_fields) /\ transcript = "") =>
        NoValues(processed_fields)

(***************************************************************************)
(* The normalizer applied to its own output.                               *)
(***************************************************************************)
MaxWords == 3
NumWords == 6
WordSeq == <<"one", "two", "Victor", "7", "grid", "hello", "alpha", "niner">>
Words == Prefix(WordSeq, NumWords)
Separators == {" ", ", "}

RECURSIVE JoinWords(_, _)
JoinWords(ws, seps) ==
    IF ws = <<>> THEN ""
    ELSE IF Len(ws) = 1 THEN ws[1]
    ELSE ws[1] \o seps[1] \o JoinWords(Tail(ws), Tail(seps))

SpokenTexts ==
    {""} \cup UNION {{JoinWords(ws, seps) : ws \in [1..n -> Words],
                                            seps \in [1..(n - 1) -> Separators]} :
                     n \in 1..MaxWords}

InitNormalize ==
    /\ pc = "start"
    /\ transcript \in SpokenTexts
    /\ report_templates = <<>> /\ classification = None /\ report_type = None
    /\ normalized = None /\ renormalized = None
    /\ IdleMerge /\ IdleValidate /\ IdleEncode /\ IdleResolve
    /\ IdleGenerate /\ IdleSend /\ IdleExtract /\ IdleProcess /\ IdleGrid
    /\ IdlePair
    /\ IdleCompare
    /\ IdleRevalidate
    /\ IdleSerializer

NormalizeFrame ==
    UNCHANGED <<transcript, report_templates, classification, report_type, mergeVars,
                validateVars, encodeVars, resolveVars, generateVars, sendVars,
                extractVars, processVars, gridVars, pairVars, compareVars, revalidateVars,
                serializerVars>>

\* normalize(x)
Normalize ==
    /\ pc = "start"
    /\ normalized' = preprocess_military_transcript(transcript)
    /\ pc' = "normalized"
    /\ UNCHANGED renormalized
    /\ NormalizeFrame

\* normalize(normalize(x))
NormalizeAgain ==
    /\ pc = "normalized"
    /\ renormalized' = preprocess_military_transcript(normalized)
    /\ pc' = "renormalized"
    /\ UNCHANGED normalized
    /\ NormalizeFrame

NextNormalize == Normalize \/ NormalizeAgain
SpecNormalize == InitNormalize /\ [][NextNormalize]_vars

\* the end of a run of spaces that starts at position i
RECURSIVE SpacesEnd(_, _)
SpacesEnd(s, i) ==
    IF i <= Len(s) /\ CharAt(s, i) = " " THEN SpacesEnd(s, i + 1) ELSE i

\* a digit, a comma and a digit, with any spaces around the comma
HasCommaDigitRun(s) ==
    \E i \in 1..Len(s) :
        /\ IsDigit(CharAt(s, i))
        /\ With(SpacesEnd(s, i + 1), LAMBDA c :
              /\ c <= Len(s) /\ CharAt(s, c) = ","
              /\ With(SpacesEnd(s, c + 1), LAMBDA d :
                    d <= Len(s) /\ IsDigit(CharAt(s, d))))

\* C17: on a transcript with no comma-separated digit run, those holding
\* comma-separated phonetic number or letter words included, a second pass
\* of preprocess_military_transcript changes nothing:
\* normalize(normalize(x)) = normalize(x).
C17_Idempotent ==
    (pc = "renormalized" /\ ~HasCommaDigitRun(transcript)) =>
        renormalized = normalized

(***************************************************************************)
(* The priority-keyed override table of determine_cot_type, under          *)
(* SpecEncode.                                                             *)
(***************************************************************************)
PriorityKeyed == {"MEDEVAC", "CONTACTREP"}
priority_levels == {"flash", "immediate", "priority", "routine"}

\* C18: for MEDEVAC and CONTACTREP the priority of the report has an entry
\* in the type's priority_based table, the event's type is that entry, and
\* no other priority of the same report type is given the same code.
C18_PriorityOverrides ==
    (pc = "encoded" /\ report_type \in PriorityKeyed) =>
        With(COT_TYPE_MAPPINGS[report_type].priority_based, LAMBDA overrides :
        With(extract_priority_from_data(report_data), LAMBDA priority :
            /\ priority \in DOMAIN overrides
            /\ event.type = overrides[priority]
            /\ \A other \in priority_levels \ {priority} :
                  /\ other \in DOMAIN overrides
                  /\ overrides[other] # event.type))

(***************************************************************************)
(* The three functions that take an MGRS grid text:                        *)
(* pytak_cot.mgrs_to_decimal_degrees, validators.mgrs_to_decimal_degrees   *)
(* and military.format_mgrs_grid.                                          *)
(***************************************************************************)
\* lines 51-52 of validators.py, 35-36 of military.py
PadEven(digits) == IF Len(digits) % 2 # 0 THEN digits \o "0" ELSE digits

\* re.sub(r'[^\w\d]', '', s)
RECURSIVE RemoveNonWord(_)
RemoveNonWord(s) ==
    IF Len(s) = 0 THEN ""
    ELSE IF Len(s) = 1 THEN (IF IsWordChar(s) THEN s ELSE "")
    ELSE RemoveNonWord(SubSeq(s, 1, Len(s) \div 2))
            \o RemoveNonWord(SubSeq(s, (Len(s) \div 2) + 1, Len(s)))

\* validators.py lines 36-54: the grid string handed to the library, None
\* when (\d{1,2}[A-Z])([A-Z]{2})(\d+) does not match at the start
MgrsFormatted(s) ==
    With(RemoveNonWord(Upper(s)), LAMBDA clean :
    With(DigitsEnd(clean, 1), LAMBDA z :
    With(DigitsEnd(clean, z + 3), LAMBDA d :
        IF /\ z - 1 \in 1..2
           /\ \A k \in z..(z + 2) : Is(clean, k, IsUpper)
           /\ d > z + 3
        THEN SubSeq(clean, 1, z + 2) \o PadEven(SubSeq(clean, z + 3, d - 1))
        ELSE None)))

ValidatorSentinel == [lat |-> "0.0", lon |-> "0.0", hae |-> 0, ce |-> 9999999]

\* validators.mgrs_to_decimal_degrees
validators_mgrs_to_decimal_degrees(s) ==
    With(MgrsFormatted(s), LAMBDA mgrs_formatted :
        IF mgrs_formatted # None /\ LibraryAccepts(mgrs_formatted)
        THEN [lat |-> "lat(" \o mgrs_formatted \o ")",
              lon |-> "lon(" \o mgrs_formatted \o ")", hae |-> 0, ce |-> 10]
        ELSE With({i \in 1..Len(s) : BarePairSplit(s, i) > 0}, LAMBDA bare :
                IF bare # {}
                THEN With(MinOf(bare), LAMBDA i :
                     With(BarePairSplit(s, i), LAMBDA e :
                         [lat |-> FloatStr(SubSeq(s, i, e - 1)),
                          lon |-> NumberAt(s, PairRest(s, e)), hae |-> 0, ce |-> 100]))
                ELSE ValidatorSentinel))

\* military.py lines 20-36: zone, square and padded digits; no match of
\* ^(\d{1,2}[A-Z]{1})([A-Z]{2})(\d{2,})$ gives NoParts
NoParts == [grid_zone |-> None, square_id |-> None, digits |-> None]
MinCoordDigits == 2
GridParts(s) ==
    With(Upper(RemoveSpaces(s)), LAMBDA grid_clean :
    With(DigitsEnd(grid_clean, 1), LAMBDA z :
    With(DigitsEnd(grid_clean, z + 3), LAMBDA d :
        IF /\ z - 1 \in 1..2
           /\ \A k \in z..(z + 2) : Is(grid_clean, k, IsUpper)
           /\ d - (z + 3) >= MinCoordDigits
           /\ d = Len(grid_clean) + 1
        THEN [grid_zone |-> SubSeq(grid_clean, 1, z),
              square_id |-> SubSeq(grid_clean, z + 1, z + 2),
              digits    |-> PadEven(SubSeq(grid_clean, z + 3, d - 1))]
        ELSE NoParts)))

\* military.format_mgrs_grid
format_mgrs_grid(s) ==
    IF s = "" THEN ""
    ELSE With(GridParts(s), LAMBDA parts :
            IF parts = NoParts THEN s
            ELSE With(Len(parts.digits) \div 2, LAMBDA half_len :
                    parts.grid_zone \o " " \o parts.square_id \o " "
                        \o SubSeq(parts.digits, 1, half_len) \o " "
                        \o SubSeq(parts.digits, half_len + 1, Len(parts.digits))))

NumDigitStrings == 6
DigitStringSeq == <<"61", "611", "6110", "61105", "611051", "6110519", "61105197",
                    "611051970">>
DigitStrings == Prefix(DigitStringSeq, NumDigitStrings)
GridPrefixes == {<<"35V", "NF">>, <<"4Q", "FJ">>}
\* one grid, written compact, in lower case, in groups, and after the word grid
GridWritings(zone, square, digits) ==
    {zone \o square \o digits, Lower(zone \o square \o digits),
     zone \o " " \o square \o " " \o digits, "grid " \o zone \o square \o digits}
GridTexts ==
    UNION {GridWritings(pre[1], pre[2], digits) : pre \in GridPrefixes, digits \in DigitStrings}
OtherGridInputs == {"", "Grid TBD", "59.437, 24.7536"}
GridPaths == {"pytak_cot", "validators", "format_mgrs_grid"}

InitGrid ==
    /\ pc = "start"
    /\ grid_input \in GridTexts \cup OtherGridInputs
    /\ grid_path = None /\ grid_handed = None /\ grid_result = None
    /\ report_type = None
    /\ IdleMerge /\ IdleValidate /\ IdleClassify /\ IdleEncode /\ IdleResolve
    /\ IdleGenerate /\ IdleSend /\ IdleExtract /\ IdleProcess /\ IdleNormalize
    /\ IdlePair
    /\ IdleCompare
    /\ IdleRevalidate
    /\ IdleSerializer

GridFrame ==
    UNCHANGED <<grid_input, report_type, mergeVars, validateVars, classifyVars,
                encodeVars, resolveVars, generateVars, sendVars, extractVars,
                processVars, normalizeVars, pairVars, compareVars, revalidateVars,
                serializerVars>>

\* pytak_cot.mgrs_to_decimal_degrees(grid_input)
PytakConvert ==
    /\ pc = "start"
    /\ grid_path' = "pytak_cot"
    /\ grid_handed' = MgrsClean(grid_input)
    /\ grid_result' = mgrs_to_decimal_degrees(grid_input)
    /\ pc' = "converted"
    /\ GridFrame

\* validators.mgrs_to_decimal_degrees(grid_input)
ValidatorsConvert ==
    /\ pc = "start"
    /\ grid_path' = "validators"
    /\ grid_handed' = MgrsFormatted(grid_input)
    /\ grid_result' = validators_mgrs_to_decimal_degrees(grid_input)
    /\ pc' = "converted"
    /\ GridFrame

\* format_mgrs_grid(grid_input)
FormatGrid ==
    /\ pc = "start"
    /\ grid_path' = "format_mgrs_grid"
    /\ grid_handed' = With(GridParts(grid_input), LAMBDA parts :
                          IF grid_input = "" \/ parts = NoParts THEN None
                          ELSE parts.grid_zone \o parts.square_id \o parts.digits)
    /\ grid_result' = format_mgrs_grid(grid_input)
    /\ pc' = "converted"
    /\ GridFrame

NextGrid == PytakConvert \/ ValidatorsConvert \/ FormatGrid
SpecGrid == InitGrid /\ [][NextGrid]_vars

\* the digits a text ends with
TrailingDigits(s) ==
    SubSeq(s, MinOf({i \in 1..(Len(s) + 1) : \A j \in i..Len(s) : IsDigit(CharAt(s, j))}),
           Len(s))
EndsWith(s, tail) ==
    Len(s) >= Len(tail) /\ SubSeq(s, Len(s) - Len(tail) + 1, Len(s)) = tail

\* C19: in each of the three paths, when the grid text has an odd count of
\* easting/northing digits, the grid the path converts or splits holds those
\* digits followed by exactly one 0, and format_mgrs_grid returns two halves
\* of equal length.
C19_OddPadded ==
    (/\ pc = "converted" /\ grid_input \in GridTexts /\ grid_handed # None
     /\ Len(TrailingDigits(grid_input)) % 2 = 1) =>
        With(TrailingDigits(grid_input) \o "0", LAMBDA padded :
            /\ TrailingDigits(grid_handed) = padded
            /\ grid_path = "format_mgrs_grid" =>
                  EndsWith(grid_result,
                           " " \o SubSeq(padded, 1, Len(padded) \div 2) \o " "
                               \o SubSeq(padded, (Len(padded) \div 2) + 1, Len(padded))))

(***************************************************************************)
(* The maps a pipeline stage is given, across the call.                    *)
(***************************************************************************)
\* C21: no stage of the pipeline changes a map it was given: the merge
\* leaves ai_fields and fallback_fields as they were, validation leaves the
\* merged map as it was, and post-processing leaves the validated map as it
\* was.
C21_InputsUnchanged ==
    [][/\ ai_fields' = ai_fields
       /\ fallback_fields' = fallback_fields
       /\ (pc = "merged" => merged' = merged)
       /\ (pc = "validated" => validated' = validated)]_vars

(***************************************************************************)
(* Two reports of one type, each encoded by generate_cot_xml and then sent *)
(* from the file it was given (send_cot_tcp / send_cot_udp), in any order. *)
(***************************************************************************)
MaxTicks == 1
ReportIds == {1, 2}
PairUuids == <<"7d9f2c1e-0000-4000-8000-000000000001",
               "7d9f2c1e-0000-4000-8000-000000000002">>
PairTypes == {"SITREP", "MEDEVAC"}
PairData ==
    {[reporting_unit |-> "WARHAWK 2-1"],
     [reporting_unit |-> "EAGLE 6", situation |-> "All quiet"]}

InitPair ==
    /\ pc = "start"
    /\ report_type \in PairTypes
    /\ \E choice \in [ReportIds -> PairData] :
          reports = [i \in ReportIds |-> [data |-> choice[i], uuid |-> PairUuids[i]]]
    /\ returned = [i \in ReportIds |-> [xml_string |-> NoXml, file_path |-> None]]
    /\ delivered = [i \in ReportIds |-> NoPayload]
    /\ stage = [i \in ReportIds |-> "start"]
    /\ report_data = EmptyMap /\ reporting_unit = None /\ clock = 0 /\ event = None
    /\ files = EmptyMap /\ generated = None
    /\ IdleMerge /\ IdleValidate /\ IdleClassify /\ IdleResolve /\ IdleSend /\ IdleExtract
    /\ IdleProcess /\ IdleNormalize /\ IdleGrid
    /\ IdleCompare
    /\ IdleRevalidate
    /\ IdleSerializer

PairFrame ==
    UNCHANGED <<pc, report_type, reports, report_data, reporting_unit, event, generated,
                mergeVars, validateVars, classifyVars, resolveVars, sendVars, extractVars,
                processVars, normalizeVars, gridVars, compareVars, revalidateVars,
                serializerVars>>

\* the wall clock passes into the next second
Tick ==
    /\ clock < MaxTicks
    /\ clock' = clock + 1
    /\ UNCHANGED <<files, returned, delivered, stage>>
    /\ PairFrame

\* generate_cot_xml(report_type, reports[i].data) for report i
GenerateReport(i) ==
    /\ stage[i] = "start"
    /\ \E written \in BOOLEAN :
       \E xml \in {GeneratedEvent(report_type, reports[i].data, None, reports[i].uuid, clock)} :
          /\ returned' = [returned EXCEPT ![i] =
                            [xml_string |-> xml,
                             file_path |-> IF written THEN FileName(report_type, clock)
                                                      ELSE None]]
          /\ files' = IF written THEN Put(files, FileName(report_type, clock), xml) ELSE files
    /\ stage' = [stage EXCEPT ![i] = "generated"]
    /\ UNCHANGED <<clock, delivered>>
    /\ PairFrame

\* send_cot_tcp / send_cot_udp with the path returned for report i: a
\* missing path is refused, the read or the socket may fail, and otherwise
\* the content of the file goes out
SendReport(i) ==
    /\ stage[i] = "generated"
    /\ IF returned[i].file_path = None \/ ~Has(files, returned[i].file_path)
       THEN stage' = [stage EXCEPT ![i] = "refused"] /\ delivered' = delivered
       ELSE \/ /\ stage' = [stage EXCEPT ![i] = "sent"]
               /\ delivered' = [delivered EXCEPT ![i] = files[returned[i].file_path]]
            \/ /\ \E outcome \in {"failed", "raised"} : stage' = [stage EXCEPT ![i] = outcome]
               /\ delivered' = delivered
    /\ UNCHANGED <<clock, files, returned>>
    /\ PairFrame

NextPair == Tick \/ \E i \in ReportIds : GenerateReport(i) \/ SendReport(i)
SpecPair == InitPair /\ [][NextPair]_vars

\* C22: the file whose path generate_cot_xml returned for a report holds
\* that report's XML, and a send of that path hands that report's event to
\* the socket, whatever the other report's flow did in between.
C22_OwnReport ==
    \A i \in ReportIds :
        /\ (stage[i] = "generated" /\ returned[i].file_path # None) =>
              files[returned[i].file_path] = returned[i].xml_string
        /\ stage[i] = "sent" => delivered[i] = returned[i].xml_string

(***************************************************************************)
(* The MEDEVAC scenario: extract_fields_with_fallback, then the callsign   *)
(* backfill (military_nlp.py 678-681), on the scenario transcript and on   *)
(* the transcripts that keep some of its clauses.                          *)
(***************************************************************************)
NumClauses == 8
ClauseSeq == <<"WARHAWK 2-1", "requesting medevac", "grid 35VNF61105197", "freq 124.5",
               "3 down", "1 urgent surgical", "2 can walk", "purple smoke", "over">>
ScenarioClauses == 1..8

\* the clauses numbered in S, in their order
RECURSIVE ClausesOf(_)
ClausesOf(S) ==
    IF S = {} THEN <<>>
    ELSE <<ClauseSeq[MinOf(S)]>> \o ClausesOf(S \ {MinOf(S)})

ScenarioTranscript == JoinPhrases(ClausesOf(ScenarioClauses))
ClauseTranscripts == {JoinPhrases(ClausesOf(S)) : S \in SUBSET (1..NumClauses)}

InitScenario ==
    /\ pc = "start"
    /\ transcript \in ClauseTranscripts
    /\ report_type = "MEDEVAC"
    /\ report_templates = <<>> /\ classification = None
    /\ rule_fields = EmptyMap
    /\ IdleMerge /\ IdleValidate /\ IdleEncode /\ IdleResolve /\ IdleGenerate /\ IdleSend
    /\ IdleProcess /\ IdleNormalize /\ IdleGrid /\ IdlePair
    /\ IdleCompare
    /\ IdleRevalidate
    /\ IdleSerializer

\* lines 678-681, applied to the rule layer's map
Backfill ==
    /\ pc = "extracted"
    /\ rule_fields' = BackfillCallsign(rule_fields, transcript)
    /\ pc' = "backfilled"
    /\ UNCHANGED <<report_type, transcript, report_templates, classification, mergeVars,
                   validateVars, encodeVars, resolveVars, generateVars, sendVars,
                   processVars, normalizeVars, gridVars, pairVars, compareVars,
                   revalidateVars, serializerVars>>

NextScenario == Extract \/ Backfill
SpecScenario == InitScenario /\ [][NextScenario]_vars

scenario_fields ==
    [reporting_unit    |-> "WARHAWK 2-1",
     location          |-> "35VNF61105197",
     frequency         |-> "124.5",
     number_patients   |-> "3",
     number_ambulatory |-> "2",
     number_litter     |-> "1",
     method_of_marking |-> "Purple smoke"]

\* C23: for the scenario transcript and type MEDEVAC the rule layer followed
\* by the callsign backfill gives reporting_unit "WARHAWK 2-1", location
\* "35VNF61105197", frequency "124.5", number_patients "3",
\* number_ambulatory "2", number_litter "1" and method_of_marking
\* "Purple smoke".
C23_Scenario ==
    (pc = "backfilled" /\ transcript = ScenarioTranscript) =>
        \A f \in DOMAIN scenario_fields :
            Has(rule_fields, f) /\ rule_fields[f] = scenario_fields[f]

(***************************************************************************)
(* Which layer a merged value comes from, under SpecMerge.                 *)
(***************************************************************************)
IsCleanValue(m, f) == Has(m, f) /\ m[f] # "" /\ ~IsContaminatedValue(m[f])

\* C24: a non-empty ML value with no contamination token is the merged
\* value of its field, whatever the rule layer holds for it; a merged value
\* differs from the ML value only where the ML value is missing, empty or
\* contaminated.
C24_CleanValueKept ==
    pc = "merged" =>
        /\ \A f \in DOMAIN ai_fields :
              IsCleanValue(ai_fields, f) => Has(merged, f) /\ merged[f] = ai_fields[f]
        /\ \A f \in DOMAIN merged :
              (~Has(ai_fields, f) \/ merged[f] # ai_fields[f]) =>
                  /\ ~IsCleanValue(ai_fields, f)
                  /\ Has(fallback_fields, f) \/ merged[f] = ""
\* a clean ML value kept against a different rule value, next to a field the
\* ML map lacks that is taken from the rule layer
C24_Witness ==
    /\ pc = "merged"
    /\ \E f \in DOMAIN ai_fields :
          /\ IsCleanValue(ai_fields, f)
          /\ HasRuleValue(f) /\ fallback_fields[f] # ai_fields[f]
          /\ merged[f] = ai_fields[f]
    /\ \E g \in DOMAIN fallback_fields :
          ~Has(ai_fields, g) /\ HasRuleValue(g) /\ merged[g] = fallback_fields[g]

(***************************************************************************)
(* determine_report_type_enhanced on two transcripts, the second holding   *)
(* every phrase of the first.                                              *)
(***************************************************************************)
NumComparePhrases == 6
ComparePhraseSeq ==
    <<"PATROLREP", "enemy contact", "troops in contact", "receiving fire", "under fire",
      "hello there", "wounded", "Sitrep follows">>
ComparePhrases == 1..NumComparePhrases

RECURSIVE ComparePhrasesOf(_)
ComparePhrasesOf(S) ==
    IF S = {} THEN <<>>
    ELSE <<ComparePhraseSeq[MinOf(S)]>> \o ComparePhrasesOf(S \ {MinOf(S)})

InitCompare ==
    /\ pc = "start"
    /\ \E S \in SUBSET ComparePhrases : \E T \in SUBSET S :
          /\ transcript = JoinPhrases(ComparePhrasesOf(T))
          /\ other_transcript = JoinPhrases(ComparePhrasesOf(S))
    /\ report_templates = load_report_templates
    /\ classification = None /\ other_classification = None
    /\ report_type = None
    /\ IdleMerge /\ IdleValidate /\ IdleEncode /\ IdleResolve
    /\ IdleGenerate /\ IdleSend /\ IdleExtract /\ IdleProcess /\ IdleNormalize /\ IdleGrid
    /\ IdlePair
    /\ IdleRevalidate
    /\ IdleSerializer

CompareFrame ==
    UNCHANGED <<transcript, other_transcript, report_templates, report_type, mergeVars,
                validateVars, encodeVars, resolveVars, generateVars, sendVars, extractVars,
                processVars, normalizeVars, gridVars, pairVars, revalidateVars,
                serializerVars>>

\* determine_report_type_enhanced(transcript, report_templates)
ClassifyFirst ==
    /\ pc = "start"
    /\ classification' = determine_report_type_enhanced(transcript, report_templates)
    /\ pc' = "classified"
    /\ UNCHANGED other_classification
    /\ CompareFrame

\* determine_report_type_enhanced(other_transcript, report_templates)
ClassifyOther ==
    /\ pc = "classified"
    /\ other_classification' =
          determine_report_type_enhanced(other_transcript, report_templates)
    /\ pc' = "compared"
    /\ UNCHANGED classification
    /\ CompareFrame

NextCompare == ClassifyFirst \/ ClassifyOther
SpecCompare == InitCompare /\ [][NextCompare]_vars

\* the (type, keyword) and (type, priority indicator) pairs a transcript matches
MatchedKeywords(text) ==
    {<<i, k>> \in (1..Len(REPORT_TYPE_INDICATORS)) \X (1..14) :
        /\ k <= Len(REPORT_TYPE_INDICATORS[i].keywords)
        /\ Contains(Lower(text), REPORT_TYPE_INDICATORS[i].keywords[k])}
MatchedPriorities(text) ==
    {<<i, k>> \in (1..Len(REPORT_TYPE_INDICATORS)) \X (1..4) :
        /\ k <= Len(REPORT_TYPE_INDICATORS[i].priority_indicators)
        /\ Contains(Lower(text), REPORT_TYPE_INDICATORS[i].priority_indicators[k])}
\* the report-type codes of the template table a transcript holds
LiteralsIn(text, templates) ==
    {k \in 1..Len(templates) : Contains(Lower(text), Lower(templates[k]))}

\* C25: when the second transcript matches every keyword and priority
\* indicator the first matches and the two hold the same report-type
\* literals, the confidence returned for the second is at least the
\* confidence returned for the first.
C25_ConfidenceMonotone ==
    (/\ pc = "compared"
     /\ MatchedKeywords(transcript) \subseteq MatchedKeywords(other_transcript)
     /\ MatchedPriorities(transcript) \subseteq MatchedPriorities(other_transcript)
     /\ LiteralsIn(transcript, report_templates)
           = LiteralsIn(other_transcript, report_templates)) =>
        RLe(classification.confidence, other_classification.confidence)

(***************************************************************************)
(* What a True return of a transport sender stands for, under SpecSend.    *)
(***************************************************************************)
\* C26: when a sender has returned True the whole payload was handed to the
\* OS socket layer before the return; for send_cot_pytak the queued event
\* was taken off the transmit queue and written to the transport.
C26_TrueAfterWrite ==
    (pc = "returned" /\ send_result = "True") =>
        /\ tx_queue = <<>>
        /\ wire = <<xml_data>>

(***************************************************************************)
(* validate_military_extraction applied to its own output.                 *)
(***************************************************************************)
InitRevalidate ==
    /\ pc = "start"
    /\ report_type \in ValidateTypes
    /\ \E r \in ValidateChoices : extracted_fields = Present(r)
    /\ validated = None
    /\ revalidated = None
    /\ IdleMerge /\ IdleClassify /\ IdleEncode /\ IdleResolve
    /\ IdleGenerate /\ IdleSend /\ IdleExtract /\ IdleProcess /\ IdleNormalize /\ IdleGrid
    /\ IdlePair /\ IdleCompare
    /\ IdleSerializer

\* validate_military_extraction(report_type, validated)
ValidateAgain ==
    /\ pc = "validated"
    /\ revalidated' = validate_military_extraction(report_type, validated)
    /\ pc' = "revalidated"
    /\ UNCHANGED <<extracted_fields, validated, report_type, mergeVars, classifyVars,
                   encodeVars, resolveVars, generateVars, sendVars, extractVars,
                   processVars, normalizeVars, gridVars, pairVars, compareVars,
                   serializerVars>>

NextRevalidate == Validate \/ ValidateAgain
SpecRevalidate == InitRevalidate /\ [][NextRevalidate]_vars

\* C27: a second pass of validate_military_extraction returns the map the
\* first pass returned: validate(t, validate(t, m)) = validate(t, m).
C27_ValidateIdempotent ==
    pc = "revalidated" => revalidated = validated
\* a first pass that repaired the patient split, escalated the precedence,
\* upper-cased the callsign and normalized the grid, and a second pass that
\* left all of it alone
C27_Witness ==
    /\ pc = "revalidated" /\ report_type = "MEDEVAC"
    /\ Has(extracted_fields, "number_litter")
    /\ validated["number_litter"] # extracted_fields["number_litter"]
    /\ Has(extracted_fields, "patient_precedence")
    /\ validated["patient_precedence"] = "Urgent surgical"
    /\ Has(extracted_fields, "reporting_unit")
    /\ validated["reporting_unit"] # extracted_fields["reporting_unit"]
    /\ Has(extracted_fields, "location")
    /\ validated["location"] # extracted_fields["location"]
    /\ revalidated = validated
\* the same for the head count appended to an echelon name
C27_WitnessEchelon ==
    /\ pc = "revalidated" /\ report_type = "CONTACTREP"
    /\ Has(extracted_fields, "enemy_size")
    /\ validated["enemy_size"] # extracted_fields["enemy_size"]
    /\ revalidated = validated

(***************************************************************************)
(* The values post_process_extracted_fields hands back, under SpecPipeline.*)
(***************************************************************************)
\* a value one of the three filler patterns finds something in
HasFillerPhrase(value) == RemoveFillers(value) # value

\* C28: every non-empty value of the map given to
\* post_process_extracted_fields that holds no filler phrase is returned
\* unchanged under its field: a frequency with a decimal point and a
\* callsign keep all their characters.
C28_ValuesUnchanged ==
    pc = "processed" =>
        \A f \in DOMAIN validated :
            (validated[f] # "" /\ ~HasFillerPhrase(validated[f])) =>
                Has(processed_fields, f) /\ processed_fields[f] = validated[f]

(***************************************************************************)
(* RepGenSerializer (pytak_sender.py, lines 10-37).  One instance, its     *)
(* sent flag and its transmit queue; run() is a coroutine, so several      *)
(* calls on the instance can be in progress at once, and control can pass  *)
(* from one to another only where a call awaits.  The one await of run()   *)
(* is handle_data's `await self.put_queue(data)`: put_queue belongs to the *)
(* pytak library, so whether it suspends the call before the event is on   *)
(* the queue (a full queue) or completes at once is left open.             *)
(***************************************************************************)
NumRuns == 3
Runs == 1..NumRuns

InitSerializer ==
    /\ pc = "start"
    /\ report_type \in PairTypes
    /\ report_data \in PairData
    /\ reporting_unit = None /\ clock = 0 /\ event = NoPayload
    /\ sent = FALSE
    /\ run_pc = [c \in Runs |-> "idle"]
    /\ pending = [c \in Runs |-> NoPayload]
    /\ tx_queue = <<>> /\ wire = <<>>
    /\ tak_scheme = None /\ xml_file_path = None /\ xml_data = NoPayload
    /\ sock = "none" /\ send_result = None /\ sender = None
    /\ IdleMerge /\ IdleValidate /\ IdleClassify /\ IdleResolve
    /\ IdleGenerate /\ IdleExtract /\ IdleProcess /\ IdleNormalize /\ IdleGrid
    /\ IdlePair /\ IdleCompare /\ IdleRevalidate

SerializerFrame ==
    UNCHANGED <<pc, report_type, report_data, reporting_unit, wire, tak_scheme,
                xml_file_path, xml_data, sock, send_result, sender, mergeVars,
                validateVars, classifyVars, resolveVars, generateVars, extractVars,
                processVars, normalizeVars, gridVars, pairVars, compareVars,
                revalidateVars>>

\* run(), lines 29-33: a call that finds sent set returns; any other call
\* builds the event and reaches `await self.put_queue(data)`, which either
\* completes at once (the event is queued and lines 25 and 35 set sent) or
\* suspends the call.
RunStart(c) ==
    /\ run_pc[c] = "idle"
    /\ IF sent
       THEN /\ run_pc' = [run_pc EXCEPT ![c] = "done"]
            /\ UNCHANGED <<sent, pending, tx_queue, clock, event>>
       ELSE /\ \E uuid \in Uuids :
               \E content \in {EventContent(report_type, report_data, None, uuid)} :
               \E d1, d2 \in 0..MaxElapsed :
                  /\ event' = Timestamped(content, clock, clock + d1, clock + d1 + d2)
                  /\ clock' = clock + d1 + d2
            /\ \E suspended \in BOOLEAN :
                 IF suspended
                 THEN /\ run_pc' = [run_pc EXCEPT ![c] = "await"]
                      /\ pending' = [pending EXCEPT ![c] = event']
                      /\ UNCHANGED <<sent, tx_queue>>
                 ELSE /\ run_pc' = [run_pc EXCEPT ![c] = "done"]
                      /\ tx_queue' = Append(tx_queue, event')
                      /\ sent' = TRUE
                      /\ pending' = pending
    /\ SerializerFrame

\* A suspended put_queue completes: the event is queued, handle_data sets
\* sent (line 25), run sets it again (line 35) and returns.
PutResumes(c) ==
    /\ run_pc[c] = "await"
    /\ tx_queue' = Append(tx_queue, pending[c])
    /\ sent' = TRUE
    /\ run_pc' = [run_pc EXCEPT ![c] = "done"]
    /\ UNCHANGED <<pending, clock, event>>
    /\ SerializerFrame

NextSerializer == \E c \in Runs : RunStart(c) \/ PutResumes(c)

SpecSerializer == InitSerializer /\ [][NextSerializer]_vars

\* C29: whatever the number of run() calls and however they interleave at
\* their await, the transmit queue never holds more than one event of the
\* instance.
C29_PutOnce == Len(tx_queue) <= 1

\* C30: when send_cot_direct, send_cot_tcp or send_cot_udp has returned,
\* on success or after connect or send raised, no socket it opened is left
\* open.
SocketSenders == WithSenders \cup FileSenders

C30_SocketClosed ==
    (pc = "returned" /\ sender \in SocketSenders) => sock \in {"none", "closed"}
====
